---- MODULE Spec2Model ----
(***************************************************************************)
(* A model of perfsim (michelgokan/perfsim), a discrete-event simulator of *)
(* microservice service chains.                                            *)
(*                                                                         *)
(* Spec         the LoadGenerator driver loop (execute_traffic) together   *)
(*              with requests, replica threads, transmissions and the      *)
(*              completion-time map.                                       *)
(*                                                                         *)
(* Time is counted in ticks of 1/TicksPerSecond seconds.  Thread work is   *)
(* counted in units such that a thread holding s millicores retires s      *)
(* units per tick (cache penalty 0, i.e. isolated cache misses = 0).       *)
(* Hosts of the driver scenarios have one core, microservices are          *)
(* best-effort with one replica each, and chain edges carry 0-byte         *)
(* payloads, so a transmission between two hosts lasts its path latency.   *)
(***************************************************************************)
EXTENDS Integers, Sequences, FiniteSets, TLC

\* ------------------------------------------------------------------ bounds
MaxDuration == 2
MaxStartAt == 2
MaxParallelUser == 2
MaxDirectCalls == 1
MaxRules == 2

\* --------------------------------------------------------------- constants
TicksPerSecond == 4
max_cpu_requests == 1000
Inf == 1000000
NoTime == -1

NoError == "none"
None == <<>>

\* ----------------------------------------------------------------- helpers
Min(S) == CHOOSE x \in S : \A y \in S : x <= y

CeilDiv(a, b) == (a + b - 1) \div b

RECURSIVE SeqOfInts(_)
\* the elements of a set of integers as a sequence, smallest first
SeqOfInts(S) ==
    IF S = {} THEN <<>>
    ELSE <<Min(S)>> \o SeqOfInts(S \ {Min(S)})

RECURSIVE SeqOfPairs(_)
\* a set of <<request, subchain>> pairs as a sequence, in lexicographic order
SeqOfPairs(S) ==
    IF S = {} THEN <<>>
    ELSE LET x == CHOOSE y \in S : \A z \in S :
                      y[1] < z[1] \/ (y[1] = z[1] /\ y[2] <= z[2])
         IN <<x>> \o SeqOfPairs(S \ {x})

Reverse(s) == [i \in 1..Len(s) |-> s[Len(s) + 1 - i]]

\* ------------------------------------------------------- scenario (inputs)
Functions == {"A", "B", "C", "D"}
HostOrder == <<"h1", "h2">>
Hosts == {HostOrder[i] : i \in DOMAIN HostOrder}

ServiceChains ==
    { [nodes |-> <<"A">>, edges |-> <<>>],
      [nodes |-> <<"A", "B">>, edges |-> << <<"A", "B">> >>],
      [nodes |-> <<"A", "B", "C", "D">>,
       edges |-> << <<"A", "B">>, <<"A", "C">>, <<"B", "D">>, <<"C", "D">> >>] }

\* instructions of each thread of an endpoint function (threads_instructions)
threads_instructions ==
    [f \in Functions |->
        CASE f = "A" -> <<1000>>
          [] f = "B" -> <<3000>>
          [] f = "C" -> <<1000, 2000>>
          [] OTHER -> <<2000>>]

threads_count(f) == Len(threads_instructions[f])

ArrivalIntervals == {2, 4, 9}

\* latency of the path between two different hosts (links + router), and the
\* egress / ingress latency of every replica process
Topology == [path_latency |-> 2, egress_latency |-> 1, ingress_latency |-> 0]

\* --------------------------------------- prototypes/traffic_prototype.py
recalc_iterations_count(tp) ==
    (tp.duration * TicksPerSecond) \div tp.arrival_interval_ns

recalc_requests_count(tp) == recalc_iterations_count(tp) * tp.parallel_user

RECURSIVE arrival_table_from(_, _, _)
arrival_table_from(tp, i, table) ==
    IF i >= recalc_iterations_count(tp) THEN table
    ELSE arrival_table_from(tp, i + 1,
                            Append(table, table[Len(table)] + tp.arrival_interval_ns))

recalc_arrival_table(tp) ==
    IF tp.start_at > tp.duration THEN <<>>
    ELSE arrival_table_from(tp, 1, <<tp.start_at * TicksPerSecond>>)

\* traffic/load_generator.py: one Request per (iteration, user), in push order;
\* the result maps the request id to its arrival time
merge_arrival_tables(tp) ==
    LET table == recalc_arrival_table(tp)
    IN [r \in 1..(Len(table) * tp.parallel_user) |->
            table[((r - 1) \div tp.parallel_user) + 1]]

calculate_total_requests_count(tp) == recalc_requests_count(tp)

\* ------------------------------ service_chain/service_chain_manager.py
in_degree(chain, f) ==
    Cardinality({i \in DOMAIN chain.edges : chain.edges[i][2] = f})

RECURSIVE node_copies(_, _, _)
node_copies(chain, i, acc) ==
    IF i > Len(chain.nodes) THEN acc
    ELSE LET node == chain.nodes[i]
             deg == in_degree(chain, node) + (IF i = 1 THEN 1 ELSE 0)
             n == IF deg < 1 THEN 1 ELSE deg
         IN node_copies(chain, i + 1, acc \o [c \in 1..n |-> <<c - 1, node>>])

RECURSIVE alt_edges(_, _, _)
alt_edges(chain, i, st) ==
    IF i > Len(chain.edges) THEN st
    ELSE LET u == chain.edges[i][1]
             v == chain.edges[i][2]
             nodes1 == st.nodes \cup {<<st.out[u], u>>}
             a == st.idx1[v]
             fresh == <<a, v>> \notin nodes1
             idx1 == IF fresh THEN [st.idx1 EXCEPT ![v] = @ + 1] ELSE st.idx1
             out == IF fresh THEN [st.out EXCEPT ![v] = @ + 1] ELSE st.out
             nodes2 == IF fresh THEN nodes1 \cup {<<a, v>>} ELSE nodes1
         IN alt_edges(chain, i + 1,
                      [idx1 |-> idx1, out |-> out, nodes |-> nodes2,
                       edges |-> Append(st.edges, << <<out[u], u>>, <<a, v>> >>)])

generate_alternative_graph(chain) ==
    LET names == {chain.nodes[i] : i \in DOMAIN chain.nodes}
        first == chain.nodes[1]
        st == alt_edges(chain, 1,
                        [idx1 |-> [f \in names |-> IF f = first THEN 1 ELSE 0],
                         out |-> [f \in names |-> IF f = first THEN 0 ELSE -1],
                         nodes |-> {}, edges |-> <<>>])
    IN [nodes |-> node_copies(chain, 1, <<>>), edges |-> st.edges]

successors(G, n) ==
    LET es == SelectSeq(G.edges, LAMBDA e : e[1] = n)
    IN [i \in 1..Len(es) |-> es[i][2]]

RECURSIVE extract_subchains(_, _, _, _, _)
RECURSIVE extract_each(_, _, _, _, _)
extract_subchains(G, st, current_node, subchain_id, append) ==
    LET succ == successors(G, current_node)
        grow == append \/ subchain_id >= Len(st.subchains)
        subs0 == IF grow THEN Append(st.subchains, <<>>) ELSE st.subchains
        id == IF grow THEN Len(subs0) - 1 ELSE subchain_id
        st1 == [subchains |-> [subs0 EXCEPT ![id + 1] = Append(@, current_node)],
                map |-> (current_node :> id) @@ st.map]
    IN IF Len(succ) = 0 THEN st1
       ELSE IF Len(succ) = 1 THEN extract_subchains(G, st1, succ[1], id, FALSE)
       ELSE extract_each(G, st1, succ, 1, id + 1)

extract_each(G, st, succ, k, subchain_id) ==
    IF k > Len(succ) THEN st
    ELSE extract_each(G, extract_subchains(G, st, succ[k], subchain_id, TRUE),
                      succ, k + 1, subchain_id)

root(G) ==
    LET cand == {i \in DOMAIN G.nodes :
                    \A j \in DOMAIN G.edges : G.edges[j][2] # G.nodes[i]}
    IN G.nodes[Min(cand)]

ServiceChainManager(chain) ==
    LET G == generate_alternative_graph(chain)
        ex == extract_subchains(G, [subchains |-> << <<>> >>, map |-> <<>>],
                                G.nodes[1], 0, FALSE)
    IN [alternative_graph |-> G,
        subchains |-> ex.subchains,
        node_subchain_id_map |-> ex.map,
        root |-> root(G)]

\* ------------------------------------------------------ traffic/request.py
\* Request.__init__ for a chain with nsub subchains
Request(arrival_time, nsub) ==
    [arrival_time |-> arrival_time,
     status |-> "IN_PROGRESS",
     subchains_status |-> [s \in 0..(nsub - 1) |-> "CREATED"],
     current_nodes |-> [s \in 0..(nsub - 1) |-> None],
     next_nodes |-> [s \in 0..(nsub - 1) |-> None],
     current_active_threads |-> [s \in 0..(nsub - 1) |-> 0],
     completed_subchains_count |-> 0,
     active_subchain_ids |-> <<0>>,
     trans_exact_times |-> [s \in 0..(nsub - 1) |-> NoTime],
     completion_time |-> NoTime,
     latency |-> 0]

Raise(cl, message) == [cl EXCEPT !.err = message]

Contains(s, x) == \E i \in DOMAIN s : s[i] = x

\* list.remove(x): drops the first occurrence
RemoveFirst(s, x) ==
    LET i == Min({j \in DOMAIN s : s[j] = x})
    IN SubSeq(s, 1, i - 1) \o SubSeq(s, i + 1, Len(s))

conclude(cl, r, now) ==
    [cl EXCEPT !.completed_requests = @ + 1,
               !.requests[r].completion_time = now,
               !.requests[r].latency = now - cl.requests[r].arrival_time,
               !.requests[r].status = "COMPLETED"]

\* the test that guards conclude() in finalize_subchain
one_subchain_short(S, count) == count = Len(S.subchains) - 1

all_subchains_concluded(S, count) == count = Len(S.subchains)

finalize_subchain(S, cl, r, subchain_id, now) ==
    LET req == cl.requests[r]
        fresh == req.subchains_status[subchain_id] # "CONCLUDED"
        count == req.completed_subchains_count + (IF fresh THEN 1 ELSE 0)
        cl1 == [cl EXCEPT !.requests[r].subchains_status[subchain_id] = "CONCLUDED",
                          !.requests[r].completed_subchains_count = count,
                          !.requests[r].current_nodes[subchain_id] = None,
                          !.requests[r].next_nodes[subchain_id] = None]
    IN IF ~Contains(req.active_subchain_ids, subchain_id)
       THEN Raise(cl1, "ValueError: list.remove(x): x not in list")
       ELSE LET cl2 == [cl1 EXCEPT !.requests[r].active_subchain_ids =
                                        RemoveFirst(@, subchain_id)]
            IN IF all_subchains_concluded(S, count) THEN conclude(cl2, r, now)
               ELSE cl2

RECURSIVE set_next_nodes_and_replicas(_, _, _, _)
set_next_nodes_and_replicas(S, next_nodes_of_request, next_nodes, i) ==
    IF i > Len(next_nodes) THEN next_nodes_of_request
    ELSE set_next_nodes_and_replicas(
            S,
            [next_nodes_of_request EXCEPT ![S.node_subchain_id_map[next_nodes[i]]] =
                                              next_nodes[i]],
            next_nodes, i + 1)

\* traffic/transmission.py: Transmission.__init__ (0-byte payload)
Transmission(r, subchain_id, src, dst) ==
    [req |-> r, sc |-> subchain_id, src |-> src, dst |-> dst,
     total_latency |-> (IF src = dst THEN 0 ELSE Topology.path_latency)
                       + Topology.egress_latency + Topology.ingress_latency,
     transmission_exact_time |-> NoTime]

RECURSIVE init_transmission_to(_, _, _, _, _, _, _, _)
\* the loop of init_transmission over next_nodes
init_transmission_to(S, hosts, cl, r, node_in_alt_graph, src_replica, next_nodes, i) ==
    IF i > Len(next_nodes) \/ cl.err # NoError THEN cl
    ELSE LET subchain_id == S.node_subchain_id_map[node_in_alt_graph]
             next_node == next_nodes[i]
             next_sc == S.node_subchain_id_map[next_node]
             req == cl.requests[r]
         IN IF req.current_nodes[subchain_id] = None THEN Raise(cl, "WTF!?")
            ELSE LET cl1 == [cl EXCEPT !.requests[r].subchains_status[next_sc] =
                                           "IN TRANSMISSION"]
                     src == hosts[src_replica[2]]
                     dst == hosts[req.next_nodes[next_sc][2]]
                 IN IF \E t \in cl.active_transmissions :
                            t.req = r /\ t.sc = next_sc /\ t.src = src
                    THEN Raise(cl1, "A request already exists in the NIC")
                    ELSE init_transmission_to(
                            S, hosts,
                            [cl1 EXCEPT !.active_transmissions =
                                            @ \cup {Transmission(r, next_sc, src, dst)},
                                        !.requests[r].active_subchain_ids =
                                            Append(@, next_sc),
                                        !.requests[r].current_nodes[next_sc] =
                                            req.next_nodes[next_sc]],
                            r, node_in_alt_graph, src_replica, next_nodes, i + 1)

\* the test of init_transmission that finalizes the subchain of a fork point
has_continuation(next_nodes) == Len(next_nodes) >= 1

is_fork_point(next_nodes) == Len(next_nodes) > 1

init_transmission(S, hosts, cl, r, node_in_alt_graph, now) ==
    LET next_nodes == successors(S.alternative_graph, node_in_alt_graph)
        subchain_id == S.node_subchain_id_map[node_in_alt_graph]
        current_replica_of_node == cl.requests[r].current_nodes[subchain_id]
        cl1 == [cl EXCEPT !.requests[r].next_nodes =
                              set_next_nodes_and_replicas(S, @, next_nodes, 1)]
    IN IF Len(next_nodes) = 0 THEN finalize_subchain(S, cl1, r, subchain_id, now)
       ELSE LET cl2 == init_transmission_to(S, hosts, cl1, r, node_in_alt_graph,
                                            current_replica_of_node, next_nodes, 1)
            IN IF cl2.err = NoError /\ is_fork_point(next_nodes)
               THEN finalize_subchain(S, cl2, r, subchain_id, now)
               ELSE cl2

finish_transmission(S, cl, r, subchain_id) ==
    LET node == cl.requests[r].current_nodes[subchain_id]
    IN IF node = None THEN Raise(cl, "KeyError: None")
       ELSE [cl EXCEPT !.requests[r].subchains_status[S.node_subchain_id_map[node]] =
                           "INIT MICROSERVICE"]

init_next_microservices(S, cl, r, subchain_id) ==
    LET req == cl.requests[r]
        next_nodes == <<S.root>>
        nxt == IF req.current_nodes[subchain_id] = None
               THEN set_next_nodes_and_replicas(S, req.next_nodes, next_nodes, 1)
               ELSE req.next_nodes
    IN [cl EXCEPT !.requests[r].next_nodes = nxt,
                  !.requests[r].subchains_status[subchain_id] = "IN TRANSMISSION",
                  !.requests[r].current_nodes = nxt]

\* ------------------------------------- the transmission completion-time map
\* the greatest key of the map where peekitem(0) returns the least
peekitem_of_the_last_item(m) ==
    IF DOMAIN m = {} THEN Inf ELSE CHOOSE k \in DOMAIN m : \A j \in DOMAIN m : j <= k

\* LoadGenerator._next_trans_completion_times without its inf sentinel:
\* a function from completion time to the "counter" stored under that key
peekitem(m) == IF DOMAIN m = {} THEN Inf ELSE Min(DOMAIN m)

pop(m, key) == [k \in DOMAIN m \ {key} |-> m[k]]

\* the update of a map that keeps no count: the new clock is stored with the
\* counter 1 and the previous clock is popped
move_completion_time_without_counting(m, prev, new) == (new :> 1) @@ pop(m, prev)

\* the counter update shared by recalculate_transmissions_times and
\* transmit_requests_in_network when an exact time moves from prev to new
move_completion_time(m, prev, new) ==
    LET counter == IF new \in DOMAIN m THEN m[new] + 1 ELSE 1
        m1 == IF prev \in DOMAIN m /\ m[prev] > 1
              THEN [m EXCEPT ![prev] = @ - 1]
              ELSE pop(m, prev)
    IN (new :> counter) @@ m1

\* ------------------------------------------------- traffic/transmission.py
calculate_transmission_time(trans) ==
    IF trans.src = trans.dst THEN 0 ELSE trans.total_latency

\* Transmission.transmit: the transmission after `duration`, or an error
transmit(trans, duration) ==
    IF trans.total_latency > 0 /\ duration <= trans.total_latency
    THEN [err |-> NoError,
          trans |-> [trans EXCEPT !.total_latency = @ - duration]]
    ELSE LET rest == IF trans.total_latency > 0
                     THEN duration - trans.total_latency ELSE duration
         IN IF trans.src # trans.dst /\ rest > 0
            THEN [err |-> "remaining_payload_size is less than zero!",
                  trans |-> [trans EXCEPT !.total_latency = 0]]
            ELSE [err |-> NoError, trans |-> [trans EXCEPT !.total_latency = 0]]

RECURSIVE recalculate_times_of_new_transmissions(_, _, _)
\* only a transmission that has no exact time yet is given one
recalculate_times_of_new_transmissions(cl, keys, now) ==
    IF keys = <<>> THEN cl
    ELSE LET trans == CHOOSE t \in cl.active_transmissions :
                          <<t.req, t.sc>> = Head(keys)
             prev == trans.transmission_exact_time
             exact == IF prev = NoTime THEN calculate_transmission_time(trans) + now
                      ELSE prev
             cl1 == IF exact = prev THEN cl
                    ELSE [cl EXCEPT
                            !.active_transmissions =
                                (@ \ {trans}) \cup
                                {[trans EXCEPT !.transmission_exact_time = exact]},
                            !.requests[trans.req].trans_exact_times[trans.sc] = exact,
                            !.next_trans_completion_times =
                                move_completion_time(@, prev, exact)]
         IN recalculate_times_of_new_transmissions(cl1, Tail(keys), now)

RECURSIVE recalculate_transmissions_times(_, _, _)
\* prototypes/topology_prototype.py; keys is the iteration over the active set
recalculate_transmissions_times(cl, keys, now) ==
    IF keys = <<>> THEN cl
    ELSE LET trans == CHOOSE t \in cl.active_transmissions :
                          <<t.req, t.sc>> = Head(keys)
             prev == trans.transmission_exact_time
             exact == calculate_transmission_time(trans) + now
             cl1 == IF exact = prev THEN cl
                    ELSE [cl EXCEPT
                            !.active_transmissions =
                                (@ \ {trans}) \cup
                                {[trans EXCEPT !.transmission_exact_time = exact]},
                            !.requests[trans.req].trans_exact_times[trans.sc] = exact,
                            !.next_trans_completion_times =
                                move_completion_time(@, prev, exact)]
         IN recalculate_transmissions_times(cl1, Tail(keys), now)

transmission_keys(cl) == SeqOfPairs({<<t.req, t.sc>> : t \in cl.active_transmissions})

\* list(active_transmissions) iterates a set of objects: the orders considered
iteration_orders(cl) == {transmission_keys(cl), Reverse(transmission_keys(cl))}

\* equipments/topology.py: with 0-byte payloads the bandwidth shares do not
\* enter the transmission times, which are recomputed for every transmission
recalculate_transmissions_bw_on_all_links(cl, now) ==
    recalculate_transmissions_times(cl, transmission_keys(cl), now)

\* ------------------------------------------------------------- cluster.py
RECURSIVE transmit_each(_, _, _, _, _, _)
\* the loop of transmit_requests_in_network over list(active_transmissions)
transmit_each(S, cl, keys, duration, now, finished) ==
    IF keys = <<>> \/ cl.err # NoError THEN [cl |-> cl, finished |-> finished]
    ELSE LET trans == CHOOSE t \in cl.active_transmissions :
                          <<t.req, t.sc>> = Head(keys)
             r == trans.req
             sc == trans.sc
             req == cl.requests[r]
         IN IF req.subchains_status[sc] # "IN TRANSMISSION"
            THEN transmit_each(S, cl, Tail(keys), duration, now, finished)
            ELSE LET res == transmit(trans, duration)
                     remaining == calculate_transmission_time(res.trans)
                     exact == remaining + now
                     moved == [res.trans EXCEPT !.transmission_exact_time = exact]
                     m1 == IF req.trans_exact_times[sc] # exact
                           THEN move_completion_time(cl.next_trans_completion_times,
                                                     req.trans_exact_times[sc], exact)
                           ELSE cl.next_trans_completion_times
                     cl1 == [cl EXCEPT
                               !.active_transmissions = (@ \ {trans}) \cup {moved},
                               !.requests[r].trans_exact_times[sc] = exact,
                               !.next_trans_completion_times = m1]
                 IN IF res.err # NoError THEN [cl |-> Raise(cl, res.err),
                                               finished |-> finished]
                    ELSE IF remaining > 0
                    THEN transmit_each(S, cl1, Tail(keys), duration, now, finished)
                    ELSE IF req.next_nodes[sc] = None
                    THEN [cl |-> Raise(cl1, "TypeError: 'NoneType' is not subscriptable"),
                          finished |-> finished]
                    ELSE LET cl2 == [cl1 EXCEPT
                                       !.requests[r].status = "MICROSERVICE",
                                       !.requests_ready_for_thread_generation =
                                           Append(@, <<sc, r>>),
                                       !.active_transmissions = @ \ {moved}]
                             cl3 == finish_transmission(S, cl2, r, sc)
                             m3 == cl3.next_trans_completion_times
                             cl4 == IF peekitem(m3) # now THEN cl3
                                    ELSE [cl3 EXCEPT !.next_trans_completion_times =
                                            IF m3[now] > 1
                                            THEN [m3 EXCEPT ![now] = @ - 1]
                                            ELSE pop(m3, now)]
                         IN transmit_each(S, cl4, Tail(keys), duration, now, TRUE)

transmit_requests_in_network(S, cl, keys, duration, now) ==
    LET res == transmit_each(S, cl, keys, duration, now, FALSE)
    IN IF res.cl.err = NoError /\ res.finished
       THEN recalculate_transmissions_bw_on_all_links(res.cl, now)
       ELSE res.cl

\* ------------------------------------------- threads, run queue and CPU
\* service_chain/replica_thread.py: work a thread retires per tick
instructions_per_tick(thread) == thread.cpu_requests_share

get_exec_time_on_rq(thread) ==
    CeilDiv(thread.instructions, instructions_per_tick(thread))

exec(thread, duration) ==
    [thread EXCEPT !.instructions = @ - duration * instructions_per_tick(thread)]

is_runnable(thread) == thread.instructions > 0

zombie_threads(cl) == {t \in cl.active_threads : t.instructions <= 0}

threads_on(cl, host) == {t \in cl.active_threads : t.host = host}

is_active(cl, host) == threads_on(cl, host) # {}

\* Process.active_threads_count of the replica serving endpoint function f
active_threads_count(cl, f) ==
    Cardinality({t \in cl.active_threads : t.node[2] = f})

\* service_chain/process.py, best-effort branch
get_cpu_request_per_thread(cl, f) ==
    LET share_per_thread == max_cpu_requests \div active_threads_count(cl, f)
    IN IF share_per_thread < max_cpu_requests THEN share_per_thread
       ELSE max_cpu_requests

\* equipments/run_queue.py, best-effort branch: the whole core is split
\* evenly among the best-effort threads queued on it
recalculate_cpu_requests_shares(cl, host) ==
    LET n == Cardinality(threads_on(cl, host))
    IN IF n = 0 THEN cl
       ELSE [cl EXCEPT !.active_threads =
                {IF t.host = host
                 THEN [t EXCEPT !.cpu_requests_share = max_cpu_requests \div n]
                 ELSE t : t \in @}]

RECURSIVE init_transmission_each(_, _, _, _, _)
\* kill_zombie_threads: init_transmission for every (request, subchain) whose
\* last live thread was reaped
init_transmission_each(S, hosts, cl, groups, now) ==
    IF groups = <<>> \/ cl.err # NoError THEN cl
    ELSE LET r == Head(groups)[1]
             sc == Head(groups)[2]
             node == Head(groups)[3]
         IN init_transmission_each(S, hosts,
                                   init_transmission(S, hosts, cl, r, node, now),
                                   Tail(groups), now)

RECURSIVE SeqOfGroups(_)
SeqOfGroups(G) ==
    IF G = {} THEN <<>>
    ELSE LET x == CHOOSE y \in G : \A z \in G :
                      y[1] < z[1] \/ (y[1] = z[1] /\ y[2] <= z[2])
         IN <<x>> \o SeqOfGroups(G \ {x})

\* kill_zombie_threads that calls init_transmission for every subchain a
\* thread of which is reaped, whatever its counter
kill_zombie_threads_that_transmits_at_every_reap(S, hosts, cl, now) ==
    LET zombies == zombie_threads(cl)
        alive == cl.active_threads \ zombies
        killed(r, sc) == Cardinality({t \in zombies : t.req = r /\ t.sc = sc})
        cl1 == [cl EXCEPT
                  !.active_threads = alive,
                  !.requests =
                      [r \in DOMAIN cl.requests |->
                          [cl.requests[r] EXCEPT !.current_active_threads =
                              [sc \in DOMAIN cl.requests[r].current_active_threads |->
                                  cl.requests[r].current_active_threads[sc]
                                      - killed(r, sc)]]]]
        groups == {<<t.req, t.sc, t.node>> : t \in zombies}
    IN IF groups = {} THEN cl1
       ELSE recalculate_transmissions_bw_on_all_links(
                init_transmission_each(S, hosts, cl1, SeqOfGroups(groups), now), now)

kill_zombie_threads(S, hosts, cl, now) ==
    LET zombies == zombie_threads(cl)
        alive == cl.active_threads \ zombies
        killed(r, sc) == Cardinality({t \in zombies : t.req = r /\ t.sc = sc})
        cl1 == [cl EXCEPT
                  !.active_threads = alive,
                  !.load_balancing_needed =
                      [h \in Hosts |->
                          IF \E t \in zombies : t.host = h
                          THEN \E t \in alive : t.host = h
                          ELSE cl.load_balancing_needed[h]],
                  !.requests =
                      [r \in DOMAIN cl.requests |->
                          [cl.requests[r] EXCEPT !.current_active_threads =
                              [sc \in DOMAIN cl.requests[r].current_active_threads |->
                                  cl.requests[r].current_active_threads[sc]
                                      - killed(r, sc)]]]]
        groups == {<<t.req, t.sc, t.node>> : t \in zombies}
        done == {g \in groups :
                    cl1.requests[g[1]].current_active_threads[g[2]] = 0}
    IN IF \E g \in groups : cl1.requests[g[1]].current_active_threads[g[2]] < 0
       THEN Raise(cl1, "Number of active threads in subchain is less than zero")
       ELSE IF done = {} THEN cl1
       ELSE LET cl2 == init_transmission_each(S, hosts, cl1, SeqOfGroups(done), now)
            IN IF cl2.err # NoError THEN cl2
               ELSE recalculate_transmissions_bw_on_all_links(cl2, now)

\* equipments/cpu.py: CPU.load_balance on a host with a single core, where
\* load_balance_threads_among_runqueues moves nothing and clears the flag
load_balance(S, hosts, cl, host, now) ==
    LET cl1 == kill_zombie_threads(S, hosts, cl, now)
        cl2 == IF cl1.load_balancing_needed[host] /\ is_active(cl1, host)
               THEN [cl1 EXCEPT !.load_balancing_needed[host] = FALSE]
               ELSE cl1
    IN IF cl1.err # NoError THEN cl1
       ELSE recalculate_cpu_requests_shares(cl2, host)

RECURSIVE load_balance_each(_, _, _, _, _)
load_balance_each(S, hosts, cl, hs, now) ==
    IF hs = <<>> \/ cl.err # NoError THEN cl
    ELSE load_balance_each(S, hosts, load_balance(S, hosts, cl, Head(hs), now),
                           Tail(hs), now)

HostSeq(H) == SelectSeq(HostOrder, LAMBDA h : h \in H)

\* cluster.py: load_balance_threads_in_all_hosts over list(active_hosts)
load_balance_threads_in_all_hosts(S, hosts, cl, now) ==
    load_balance_each(S, hosts, cl,
                      HostSeq({h \in Hosts : is_active(cl, h)}), now)

\* cluster.py: run_active_threads
run_active_threads(cl, duration) ==
    IF \E t \in cl.active_threads : ~is_runnable(t)
    THEN Raise(cl, "You can't execute a zombie thread")
    ELSE [cl EXCEPT !.active_threads = {exec(t, duration) : t \in @}]

\* service_chain/microservice_replica.py and run_queue.enqueue_tasks:
\* the threads of one endpoint function are created, then queued on core 0
ReplicaThread(cl, hosts, r, subchain_id, node, k) ==
    [req |-> r, sc |-> subchain_id, node |-> node, idx |-> k,
     instructions |-> threads_instructions[node[2]][k],
     cpu_requests_share |-> 0,
     host |-> hosts[node[2]]]

generate_threads(S, hosts, cl, r, subchain_id, balance, now) ==
    LET cl1 == init_next_microservices(S, cl, r, subchain_id)
        current_node == cl1.requests[r].current_nodes[subchain_id]
    IN IF current_node = None
       THEN Raise(cl1, "TypeError: 'NoneType' object is not subscriptable")
       ELSE LET f == current_node[2]
                created == {ReplicaThread(cl1, hosts, r, subchain_id, current_node, k) :
                                k \in 1..threads_count(f)}
                cl2 == [cl1 EXCEPT
                          !.active_threads = @ \cup created,
                          !.requests[r].current_active_threads[subchain_id] =
                              @ + threads_count(f),
                          !.load_balancing_needed[hosts[f]] = TRUE]
                share == get_cpu_request_per_thread(cl2, f)
                cl3 == [cl2 EXCEPT !.active_threads =
                          {IF t \in created
                           THEN [t EXCEPT !.cpu_requests_share = share]
                           ELSE t : t \in @}]
            IN IF balance THEN load_balance(S, hosts, cl3, hosts[f], now) ELSE cl3

RECURSIVE generate_threads_each(_, _, _, _, _, _)
\* the loop of _initiate_next_endpoint_function_in_chain
generate_threads_each(S, hosts, cl, ready, i, now) ==
    IF i > Len(ready) \/ cl.err # NoError THEN cl
    ELSE generate_threads_each(
            S, hosts,
            generate_threads(S, hosts, cl, ready[i][2], ready[i][1],
                             i = Len(ready), now),
            ready, i + 1, now)

\* --------------------------------------------------- equipments/resource.py
NoHost == "None"

ResourceNotAvailableError == "ResourceNotAvailableError"

\* Resource.__init__
Resource(throttleable, capacity) ==
    [throttleable |-> throttleable, capacity |-> capacity, reserved |-> 0]

get_available(res) == res.capacity - res.reserved

is_there_enough_resources_to_reserve(res, amount) == get_available(res) >= amount

\* Resource.reserve: the resource after the call and the exception it raised
reserve_without_the_availability_test(res, amount) ==
    IF amount >= 0
    THEN [res |-> [res EXCEPT !.reserved = @ + amount], raised |-> NoError]
    ELSE [res |-> res, raised |-> "Reserving negative resource is not possible!"]

reserve(res, amount) ==
    IF is_there_enough_resources_to_reserve(res, amount)
    THEN IF amount >= 0
         THEN [res |-> [res EXCEPT !.reserved = @ + amount], raised |-> NoError]
         ELSE [res |-> res, raised |-> "Reserving negative resource is not possible!"]
    ELSE [res |-> res, raised |-> ResourceNotAvailableError]

\* Resource.release
release(res, amount) ==
    IF res.reserved < amount /\ res.throttleable
    THEN [res |-> res,
          raised |-> "The amount of resource to release is bigger than the reserved capacity"]
    ELSE [res |-> [res EXCEPT !.reserved = @ - amount],
          raised |-> IF res.reserved - amount < 0
                     THEN "How come reserved resource is less than 0!"
                     ELSE NoError]

\* -------------------------------------------------------- equipments/cpu.py
\* Python's round(amount / cores) for a non-negative amount: half to even
round(amount, cores) ==
    LET q == amount \div cores
        rem == amount % cores
    IN IF 2 * rem < cores THEN q
       ELSE IF 2 * rem > cores THEN q + 1
       ELSE IF q % 2 = 0 THEN q ELSE q + 1

RECURSIVE CPU_get_available(_)
CPU_get_available(cores) ==
    IF cores = <<>> THEN 0
    ELSE get_available(Head(cores)) + CPU_get_available(Tail(cores))

RECURSIVE CPU_capacity(_)
CPU_capacity(cores) ==
    IF cores = <<>> THEN 0 ELSE Head(cores).capacity + CPU_capacity(Tail(cores))

CPU_is_there_enough_resources_to_reserve(cores, amount) ==
    CPU_get_available(cores) >= amount

RECURSIVE reserve_on_cores(_, _, _)
reserve_on_cores(cores, cpu_requests_per_core, i) ==
    IF i > Len(cores) THEN [cores |-> cores, raised |-> NoError]
    ELSE LET o == reserve(cores[i], cpu_requests_per_core)
         IN IF o.raised # NoError THEN [cores |-> cores, raised |-> o.raised]
            ELSE reserve_on_cores([cores EXCEPT ![i] = o.res],
                                  cpu_requests_per_core, i + 1)

\* CPU.reserve
CPU_reserve(cores, amount) == reserve_on_cores(cores, round(amount, Len(cores)), 1)

RECURSIVE release_on_cores(_, _, _)
release_on_cores(cores, cpu_requests_per_core, i) ==
    IF i > Len(cores) THEN [cores |-> cores, raised |-> NoError]
    ELSE LET o == release(cores[i], cpu_requests_per_core)
         IN IF o.raised # NoError
            THEN [cores |-> [cores EXCEPT ![i] = o.res], raised |-> o.raised]
            ELSE release_on_cores([cores EXCEPT ![i] = o.res],
                                  cpu_requests_per_core, i + 1)

\* CPU.release
CPU_release(cores, amount) == release_on_cores(cores, round(amount, Len(cores)), 1)

\* ------------------------------------------- service_chain/microservice.py
is_guaranteed(ms) == ms.cpu_limits = ms.cpu_requests /\ ms.cpu_requests # -1

is_burstable(ms) == ms.cpu_limits # ms.cpu_requests /\ ms.cpu_requests # -1

is_unlimited_burstable(ms) ==
    ms.cpu_limits # ms.cpu_requests /\ ms.cpu_requests # -1 /\ ms.cpu_limits = -1

is_limited_burstable(ms) == ms.cpu_limits # ms.cpu_requests /\ ms.cpu_limits # -1

\* ------------------------------------------------------- equipments/host.py
\* Host.__init__; capacities of RAM and storage in the unit of the requests
Host(prototype) ==
    [cpu |-> [i \in 1..prototype.cpu_core_count |-> Resource(TRUE, max_cpu_requests)],
     ram |-> Resource(FALSE, prototype.memory_capacity),
     blkio |-> Resource(FALSE, prototype.storage_capacity),
     replicas |-> {}]

is_replica_placeable_on_host_from_resource_perspective(host, ms) ==
    /\ \/ CPU_is_there_enough_resources_to_reserve(host.cpu, ms.cpu_requests)
       \/ (ms.cpu_requests = ms.cpu_limits /\ ms.cpu_limits = -1)
    /\ is_there_enough_resources_to_reserve(host.ram, ms.memory_requests)
    /\ is_there_enough_resources_to_reserve(host.blkio, ms.blkio_capacity)

\* Host.place_replica (bandwidth requests of 0 leave the NIC counters alone)
place_replica(host, ms, replica) ==
    LET c == IF is_guaranteed(ms) \/ is_unlimited_burstable(ms)
             THEN CPU_reserve(host.cpu, ms.cpu_requests)
             ELSE IF is_limited_burstable(ms) THEN CPU_reserve(host.cpu, ms.cpu_limits)
             ELSE IF is_burstable(ms) THEN CPU_reserve(host.cpu, ms.cpu_limits)
             ELSE [cores |-> host.cpu, raised |-> NoError]
        h1 == [host EXCEPT !.cpu = c.cores]
        m == reserve(h1.ram, ms.memory_requests)
        h2 == [h1 EXCEPT !.ram = m.res]
        b == reserve(h2.blkio, ms.blkio_capacity)
        h3 == [h2 EXCEPT !.blkio = b.res]
    IN IF c.raised # NoError THEN [host |-> h1, raised |-> c.raised]
       ELSE IF m.raised # NoError THEN [host |-> h2, raised |-> m.raised]
       ELSE IF b.raised # NoError THEN [host |-> h3, raised |-> b.raised]
       ELSE [host |-> [h3 EXCEPT !.replicas = @ \cup {replica}], raised |-> NoError]

\* Host.evict_replica
evict_replica(host, ms, replica) ==
    LET h0 == [host EXCEPT !.replicas = @ \ {replica}]
        c == IF ms.cpu_requests # -1 /\ ms.cpu_limits # -1
             THEN CPU_release(h0.cpu, ms.cpu_requests)
             ELSE [cores |-> h0.cpu, raised |-> NoError]
        h1 == [h0 EXCEPT !.cpu = c.cores]
        m == release(h1.ram, ms.memory_requests)
        h2 == [h1 EXCEPT !.ram = m.res]
        b == release(h2.blkio, ms.blkio_capacity)
        h3 == [h2 EXCEPT !.blkio = b.res]
    IN IF replica \notin host.replicas THEN [host |-> host, raised |-> "KeyError"]
       ELSE IF c.raised # NoError THEN [host |-> h1, raised |-> c.raised]
       ELSE IF m.raised # NoError THEN [host |-> h2, raised |-> m.raised]
       ELSE [host |-> h3, raised |-> b.raised]

\* ------------------------------------ service_chain/microservice_replica.py
\* the setter of MicroserviceReplica.host, on the equipment eq =
\* [hosts_dict, host_of, microservice_of, raised]
set_host(eq, replica, host) ==
    LET old == eq.host_of[replica]
        ms == eq.microservice_of[replica]
        e == IF old # NoHost THEN evict_replica(eq.hosts_dict[old], ms, replica)
             ELSE [host |-> <<>>, raised |-> NoError]
        eq1 == IF old # NoHost
               THEN [eq EXCEPT !.hosts_dict[old] = e.host, !.raised = e.raised]
               ELSE eq
        pl == IF host # NoHost THEN place_replica(eq1.hosts_dict[host], ms, replica)
              ELSE [host |-> <<>>, raised |-> NoError]
        eq2 == IF host # NoHost
               THEN [eq1 EXCEPT !.hosts_dict[host] = pl.host, !.raised = pl.raised]
               ELSE eq1
    IN IF host = old THEN eq
       ELSE IF eq1.raised # NoError THEN eq1
       ELSE IF eq2.raised # NoError THEN eq2
       ELSE [eq2 EXCEPT !.host_of[replica] = host]

\* ------------------------------------------------- placement/least_fit.py
\* tests/conftest.py: the options of the least-fit placement algorithm
least_fit_options ==
    [w_cpu |-> 100, w_mem |-> 100, w_ingress |-> 100, w_egress |-> 100, w_blkio |-> 0]

\* LeastFit.least_fit_score times 20, which keeps every score an integer
least_fit_score(available, capacity, requested, weight) ==
    LET req == IF requested > capacity THEN capacity ELSE requested
    IN (2000 - (available - req) * (2000 \div capacity)) * weight

\* LeastFit._calculate_host_score_for_placing_replica times 20 * sum(weights);
\* a NIC with no bandwidth requested scores 0 for a replica that requests 0
calculate_host_score_for_placing_replica(host, ms) ==
    least_fit_score(CPU_get_available(host.cpu), CPU_capacity(host.cpu),
                    ms.cpu_requests, least_fit_options.w_cpu)
    + least_fit_score(get_available(host.ram), host.ram.capacity,
                      ms.memory_requests, least_fit_options.w_mem)
    + least_fit_score(get_available(host.blkio), host.blkio.capacity,
                      ms.blkio_capacity, least_fit_options.w_blkio)

\* Microservice.__init__: a microservice starts with no rules
no_rules ==
    [ms_affinity_rules |-> {}, host_affinity_rules |-> {},
     ms_antiaffinity_rules |-> {}, host_antiaffinity_rules |-> {}]

AttributeError == "AttributeError: 'Microservice' object has no attribute 'hosts_dict'"

\* reschedule reads ms.hosts_dict of every microservice named by an affinity
\* or an anti-affinity rule; a Microservice has no such attribute
reads_hosts_dict_of_a_microservice(rules) ==
    rules.ms_affinity_rules # {} \/ rules.ms_antiaffinity_rules # {}

\* reschedule: the hosts the loop over the hosts goes through
affinity_hosts(rules) ==
    IF rules.ms_affinity_rules # {} \/ rules.host_affinity_rules # {}
    THEN rules.host_affinity_rules
    ELSE Hosts

\* reschedule: the names of the hosts the loop over the hosts skips
antiaffinity_hosts_names(rules) == rules.host_antiaffinity_rules

\* the loop of reschedule over the hosts: the least used host for a replica
RECURSIVE least_used_host_from(_, _, _, _)
least_used_host_from(eq, replica, k, least_used_host) ==
    IF k > Len(HostOrder) THEN least_used_host
    ELSE LET host == eq.hosts_dict[HostOrder[k]]
             ms == eq.microservice_of[replica]
             score == calculate_host_score_for_placing_replica(host, ms)
             lowest == calculate_host_score_for_placing_replica(
                           eq.hosts_dict[least_used_host], ms)
             better ==
                 \/ least_used_host = NoHost
                 \/ score < lowest
                 \/ /\ score = lowest
                    /\ Cardinality(host.replicas)
                         < Cardinality(eq.hosts_dict[least_used_host].replicas)
         IN IF /\ HostOrder[k] \in affinity_hosts(eq.affinity_rules[replica])
               /\ HostOrder[k] \notin antiaffinity_hosts_names(eq.affinity_rules[replica])
               /\ is_replica_placeable_on_host_from_resource_perspective(host, ms)
               /\ better
            THEN least_used_host_from(eq, replica, k + 1, HostOrder[k])
            ELSE least_used_host_from(eq, replica, k + 1, least_used_host)

\* LeastFit.reschedule over the replicas in the iteration order of their set
RECURSIVE reschedule(_, _, _)
reschedule(eq, replicas, i) ==
    IF i > Len(replicas) \/ eq.raised # NoError THEN eq
    ELSE IF reads_hosts_dict_of_a_microservice(eq.affinity_rules[replicas[i]])
    THEN [eq EXCEPT !.raised = AttributeError]
    ELSE LET least_used_host == least_used_host_from(eq, replicas[i], 1, NoHost)
             eq1 == set_host(eq, replicas[i], least_used_host)
         IN IF eq1.raised = NoError /\ least_used_host = NoHost
            THEN [eq1 EXCEPT !.raised = ResourceNotAvailableError]
            ELSE reschedule(eq1, replicas, i + 1)

\* ---------------------------------------------------------------- scenarios
\* single-core hosts run the traffic; their replicas are best effort
TrafficHostPrototype ==
    [cpu_core_count |-> 1, memory_capacity |-> 2, storage_capacity |-> 1]

best_effort ==
    [cpu_requests |-> -1, cpu_limits |-> -1, memory_requests |-> 0, blkio_capacity |-> 0]

\* hosts and resource allocations that placement is exercised with
PlacementHostPrototypes ==
    [h \in Hosts |-> [cpu_core_count |-> IF h = "h1" THEN 2 ELSE 1,
                      memory_capacity |-> 2, storage_capacity |-> 1]]

ResourceAllocationScenarios ==
    { [cpu_requests |-> 1001, cpu_limits |-> 1001, memory_requests |-> 1, blkio_capacity |-> 0],
      [cpu_requests |-> 1000, cpu_limits |-> 1000, memory_requests |-> 1, blkio_capacity |-> 0],
      [cpu_requests |-> 500, cpu_limits |-> 1000, memory_requests |-> 1, blkio_capacity |-> 0],
      [cpu_requests |-> 500, cpu_limits |-> -1, memory_requests |-> 1, blkio_capacity |-> 0],
      [cpu_requests |-> -1, cpu_limits |-> -1, memory_requests |-> 1, blkio_capacity |-> 0] }

PlacedReplicas == {"A", "B", "C"}

\* one allocation for all replicas, or a guaranteed allocation for each
ReplicaAllocations ==
    {[r \in PlacedReplicas |-> ras] : ras \in ResourceAllocationScenarios}
    \cup [PlacedReplicas -> {ras \in ResourceAllocationScenarios : is_guaranteed(ras)}]

DirectAmounts == {-1, 1}

\* placements of the replicas of the four microservices on the two hosts
Placements ==
    { [f \in Functions |-> "h1"],
      [f \in Functions |-> IF f \in {"A", "C"} THEN "h1" ELSE "h2"],
      [f \in Functions |-> IF f = "C" THEN "h2" ELSE "h1"] }

TrafficPrototypes ==
    [duration : 0..MaxDuration, arrival_interval_ns : ArrivalIntervals,
     start_at : 0..MaxStartAt, parallel_user : 1..MaxParallelUser]

VARIABLES
    scm,                      \* the ServiceChainManager of the scenario's chain
    tp,                       \* the TrafficPrototype of the scenario
    host_of,                  \* host of the replica of each microservice
    time,                     \* Simulation.time
    next_event, previous_event,
    prediction,               \* prediction_for_the_next_event_after_running_threads
    duration_of_next_event,
    next_batch_arrival_time,
    merged_arrival_table,     \* ids of the requests still in the arrival heap
    total_requests_count,
    completed_requests,
    requests,
    requests_ready_for_thread_generation,
    active_threads,
    active_transmissions,
    next_trans_completion_times,
    load_balancing_needed,
    err,                      \* the exception that ended execute_traffic, if any
    hosts_dict,               \* per host: its cores, RAM, storage and replicas
    microservice_of,          \* the resource allocation of each replica
    raised,                   \* what the last placement or resource call raised
    direct_calls,             \* reserve / release calls made on a resource itself
    affinity_rules,           \* the affinity and anti-affinity rules of each microservice
    last_call,                \* the reserve / release the last step made on a resource
    sched,                    \* the run queues and the CPU of one host, with its threads
    network                   \* the links of the topology and the transmissions on them

vars == <<scm, tp, host_of, time, next_event, previous_event, prediction,
          duration_of_next_event, next_batch_arrival_time, merged_arrival_table,
          total_requests_count, completed_requests, requests,
          requests_ready_for_thread_generation, active_threads,
          active_transmissions, next_trans_completion_times,
          load_balancing_needed, err,
          hosts_dict, microservice_of, raised, direct_calls, affinity_rules,
          last_call, sched, network>>

placement_vars == <<hosts_dict, microservice_of, raised, direct_calls, affinity_rules,
                    last_call>>

scenario_vars == <<scm, tp, host_of, total_requests_count, placement_vars, sched,
                   network>>

driver_vars == <<time, next_event, previous_event, prediction,
                 duration_of_next_event, next_batch_arrival_time,
                 merged_arrival_table>>

cluster_vars == <<completed_requests, requests,
                  requests_ready_for_thread_generation, active_threads,
                  active_transmissions, next_trans_completion_times,
                  load_balancing_needed, err>>

Cluster ==
    [completed_requests |-> completed_requests,
     requests |-> requests,
     requests_ready_for_thread_generation |-> requests_ready_for_thread_generation,
     active_threads |-> active_threads,
     active_transmissions |-> active_transmissions,
     next_trans_completion_times |-> next_trans_completion_times,
     load_balancing_needed |-> load_balancing_needed,
     err |-> err]

SetCluster(cl) ==
    /\ completed_requests' = cl.completed_requests
    /\ requests' = cl.requests
    /\ requests_ready_for_thread_generation' = cl.requests_ready_for_thread_generation
    /\ active_threads' = cl.active_threads
    /\ active_transmissions' = cl.active_transmissions
    /\ next_trans_completion_times' = cl.next_trans_completion_times
    /\ load_balancing_needed' = cl.load_balancing_needed
    /\ err' = cl.err

\* Simulation and LoadGenerator construction for one scenario
Init ==
    /\ scm \in {ServiceChainManager(c) : c \in ServiceChains}
    /\ tp \in TrafficPrototypes
    /\ host_of \in Placements
    /\ time = 0
    /\ previous_event = "None"
    /\ next_event = "REQUEST"
    /\ prediction = "None"
    /\ duration_of_next_event = 0
    /\ next_batch_arrival_time = 0
    /\ total_requests_count = calculate_total_requests_count(tp)
    /\ requests = [r \in DOMAIN merge_arrival_tables(tp) |->
                      Request(merge_arrival_tables(tp)[r], Len(scm.subchains))]
    /\ merged_arrival_table = DOMAIN merge_arrival_tables(tp)
    /\ completed_requests = 0
    /\ requests_ready_for_thread_generation = <<>>
    /\ active_threads = {}
    /\ active_transmissions = {}
    /\ next_trans_completion_times = <<>>
    /\ load_balancing_needed = [h \in Hosts |-> FALSE]
    /\ err = NoError
    /\ hosts_dict = [h \in Hosts |->
                        [Host(TrafficHostPrototype) EXCEPT
                            !.replicas = {f \in Functions : host_of[f] = h}]]
    /\ microservice_of = [f \in Functions |-> best_effort]
    /\ raised = NoError
    /\ direct_calls = 0
    /\ affinity_rules = [f \in Functions |-> no_rules]
    /\ last_call = None
    /\ sched = None
    /\ network = None

Running == err = NoError

\* heapq.heappop: the request with the least (arrival_time, push index)
heappop(heap) ==
    CHOOSE r \in heap : \A q \in heap :
        requests[r].arrival_time < requests[q].arrival_time
        \/ (requests[r].arrival_time = requests[q].arrival_time /\ r <= q)

\* a REQUEST step that ends the run when it finds the arrival table empty
initiate_next_batch_that_stops_on_an_empty_table ==
    /\ Running /\ next_event = "REQUEST"
    /\ IF merged_arrival_table = {}
       THEN /\ next_event' = "DONE"
            /\ UNCHANGED <<time, previous_event, prediction, duration_of_next_event,
                           next_batch_arrival_time, merged_arrival_table,
                           requests_ready_for_thread_generation>>
       ELSE LET first == heappop(merged_arrival_table)
                batch == {r \in merged_arrival_table :
                            requests[r].arrival_time = requests[first].arrival_time}
                rest == merged_arrival_table \ batch
                pairs == [i \in 1..Cardinality(batch) |-> <<0, SeqOfInts(batch)[i]>>]
            IN /\ time' = requests[first].arrival_time
               /\ merged_arrival_table' = rest
               /\ requests_ready_for_thread_generation' =
                      requests_ready_for_thread_generation \o pairs
               /\ next_event' = "THREAD GEN"
               /\ next_batch_arrival_time' =
                      IF rest = {} THEN Inf ELSE requests[heappop(rest)].arrival_time
               /\ previous_event' = "REQUEST"
               /\ UNCHANGED <<prediction, duration_of_next_event>>
    /\ UNCHANGED <<completed_requests, requests, active_threads, active_transmissions,
                   next_trans_completion_times, load_balancing_needed, err>>
    /\ UNCHANGED scenario_vars

\* LoadGenerator._initiate_next_batch_of_requests
initiate_next_batch_of_requests ==
    /\ Running /\ next_event = "REQUEST"
    /\ IF merged_arrival_table = {}
       THEN /\ next_event' = "EXEC TIME EST"
            /\ UNCHANGED <<time, previous_event, prediction, duration_of_next_event,
                           next_batch_arrival_time, merged_arrival_table,
                           requests_ready_for_thread_generation>>
       ELSE LET first == heappop(merged_arrival_table)
                batch == {r \in merged_arrival_table :
                            requests[r].arrival_time = requests[first].arrival_time}
                rest == merged_arrival_table \ batch
                pairs == [i \in 1..Cardinality(batch) |-> <<0, SeqOfInts(batch)[i]>>]
            IN /\ time' = requests[first].arrival_time
               /\ merged_arrival_table' = rest
               /\ requests_ready_for_thread_generation' =
                      requests_ready_for_thread_generation \o pairs
               /\ next_event' = "THREAD GEN"
               /\ next_batch_arrival_time' =
                      IF rest = {} THEN Inf ELSE requests[heappop(rest)].arrival_time
               /\ previous_event' = "REQUEST"
               /\ UNCHANGED <<prediction, duration_of_next_event>>
    /\ UNCHANGED <<completed_requests, requests, active_threads, active_transmissions,
                   next_trans_completion_times, load_balancing_needed, err>>
    /\ UNCHANGED scenario_vars

\* LoadGenerator._initiate_next_endpoint_function_in_chain
initiate_next_endpoint_function_in_chain ==
    /\ Running /\ next_event = "THREAD GEN"
    /\ LET cl == generate_threads_each(scm, host_of, Cluster,
                                       requests_ready_for_thread_generation, 1, time)
       IN IF cl.err # NoError
          THEN SetCluster(cl) /\ UNCHANGED <<next_event, previous_event>>
          ELSE /\ SetCluster([cl EXCEPT !.requests_ready_for_thread_generation = <<>>])
               /\ next_event' = "EXEC TIME EST"
               /\ previous_event' = "THREAD GEN"
    /\ UNCHANGED <<time, prediction, duration_of_next_event, next_batch_arrival_time,
                   merged_arrival_table>>
    /\ UNCHANGED scenario_vars

\* the next event is taken as given, whatever the threads need
ends_sooner_ignoring_the_threads(cl, time_of_next_event, now) ==
    IF time_of_next_event = Inf THEN <<Inf, Inf>>
    ELSE <<time_of_next_event, time_of_next_event - now>>

\* Cluster.is_there_a_thread_that_ends_sooner: <<time, duration>> of the next event
ends_sooner_with_subtraction_swapped(cl, time_of_next_event, now) ==
    LET finish == {get_exec_time_on_rq(t) + now : t \in cl.active_threads}
        sooner == {f \in finish : f < time_of_next_event}
    IN IF sooner # {} THEN <<Min(sooner), Min(sooner) - now>>
       ELSE IF time_of_next_event = Inf THEN <<Inf, Inf>>
       ELSE <<time_of_next_event, now - time_of_next_event>>

is_there_a_thread_that_ends_sooner(cl, time_of_next_event, now) ==
    LET finish == {get_exec_time_on_rq(t) + now : t \in cl.active_threads}
        sooner == {f \in finish : f < time_of_next_event}
    IN IF sooner # {} THEN <<Min(sooner), Min(sooner) - now>>
       ELSE IF time_of_next_event = Inf THEN <<Inf, Inf>>
       ELSE <<time_of_next_event, time_of_next_event - now>>

\* an EXEC TIME EST step that takes an infinite duration for a bug unless the
\* previous event is THREAD GEN
exec_time_estimation_that_tolerates_inf_after_thread_gen ==
    /\ Running /\ next_event = "EXEC TIME EST"
    /\ LET cl == recalculate_transmissions_bw_on_all_links(Cluster, time)
           next_trans_completion_time == peekitem(cl.next_trans_completion_times)
           request_first == next_trans_completion_time = Inf
                            \/ next_batch_arrival_time < next_trans_completion_time
           time_of_next_event == IF request_first THEN next_batch_arrival_time
                                 ELSE next_trans_completion_time
           res == is_there_a_thread_that_ends_sooner(cl, time_of_next_event, time)
       IN /\ prediction' = IF request_first THEN "REQUEST" ELSE "THREAD GEN"
          /\ IF cl.active_threads # {} /\ time > time_of_next_event
             THEN /\ SetCluster(Raise(cl, "What the hell!? Did we miss a request"))
                  /\ UNCHANGED <<next_event, previous_event, duration_of_next_event>>
             ELSE IF \E t \in cl.active_threads : t.cpu_requests_share <= 0
             THEN /\ SetCluster(Raise(cl, "ValueError: math domain error"))
                  /\ UNCHANGED <<next_event, previous_event, duration_of_next_event>>
             ELSE IF res[2] = Inf /\ previous_event # "THREAD GEN"
             THEN /\ SetCluster(Raise(cl, "Next event can't be inf!"))
                  /\ duration_of_next_event' = res[2]
                  /\ UNCHANGED <<next_event, previous_event>>
             ELSE /\ SetCluster(cl)
                  /\ duration_of_next_event' = res[2]
                  /\ next_event' = IF res[2] = Inf THEN "THREAD GEN" ELSE "RUN THREADS"
                  /\ previous_event' = "EXEC TIME EST"
    /\ UNCHANGED <<time, next_batch_arrival_time, merged_arrival_table>>
    /\ UNCHANGED scenario_vars

\* LoadGenerator._exec_time_estimation
exec_time_estimation ==
    /\ Running /\ next_event = "EXEC TIME EST"
    /\ LET cl == recalculate_transmissions_bw_on_all_links(Cluster, time)
           next_trans_completion_time == peekitem(cl.next_trans_completion_times)
           request_first == next_trans_completion_time = Inf
                            \/ next_batch_arrival_time < next_trans_completion_time
           time_of_next_event == IF request_first THEN next_batch_arrival_time
                                 ELSE next_trans_completion_time
           res == is_there_a_thread_that_ends_sooner(cl, time_of_next_event, time)
       IN /\ prediction' = IF request_first THEN "REQUEST" ELSE "THREAD GEN"
          /\ IF cl.active_threads # {} /\ time > time_of_next_event
             THEN /\ SetCluster(Raise(cl, "What the hell!? Did we miss a request"))
                  /\ UNCHANGED <<next_event, previous_event, duration_of_next_event>>
             ELSE IF \E t \in cl.active_threads : t.cpu_requests_share <= 0
             THEN /\ SetCluster(Raise(cl, "ValueError: math domain error"))
                  /\ UNCHANGED <<next_event, previous_event, duration_of_next_event>>
             ELSE IF res[2] = Inf /\ previous_event = "THREAD GEN"
             THEN /\ SetCluster(Raise(cl, "Next event can't be inf!"))
                  /\ duration_of_next_event' = res[2]
                  /\ UNCHANGED <<next_event, previous_event>>
             ELSE /\ SetCluster(cl)
                  /\ duration_of_next_event' = res[2]
                  /\ next_event' = IF res[2] = Inf THEN "THREAD GEN" ELSE "RUN THREADS"
                  /\ previous_event' = "EXEC TIME EST"
    /\ UNCHANGED <<time, next_batch_arrival_time, merged_arrival_table>>
    /\ UNCHANGED scenario_vars

\* LoadGenerator._run_threads_on_hosts
run_threads_on_hosts ==
    /\ Running /\ next_event = "RUN THREADS"
    /\ \E keys \in iteration_orders(Cluster) :
       LET now == time + duration_of_next_event
           cl1 == run_active_threads(Cluster, duration_of_next_event)
           cl2 == IF cl1.err # NoError THEN cl1
                  ELSE transmit_requests_in_network(scm, cl1, keys,
                                                    duration_of_next_event, now)
           cl3 == IF cl2.err # NoError THEN cl2
                  ELSE load_balance_threads_in_all_hosts(scm, host_of, cl2, now)
       IN /\ time' = now
          /\ SetCluster(cl3)
          /\ IF cl3.err # NoError THEN UNCHANGED <<next_event, previous_event>>
             ELSE /\ next_event' = IF cl3.completed_requests = total_requests_count
                                   THEN "DONE" ELSE prediction
                  /\ previous_event' = "RUN THREADS"
    /\ UNCHANGED <<prediction, duration_of_next_event, next_batch_arrival_time,
                   merged_arrival_table>>
    /\ UNCHANGED scenario_vars

Next ==
    \/ initiate_next_batch_of_requests
    \/ initiate_next_endpoint_function_in_chain
    \/ exec_time_estimation
    \/ run_threads_on_hosts

Spec == Init /\ [][Next]_vars

\* ------------------------------------------- placement and resource calls
Equipment ==
    [hosts_dict |-> hosts_dict, host_of |-> host_of,
     microservice_of |-> microservice_of, raised |-> raised,
     affinity_rules |-> affinity_rules]

SetEquipment(eq) ==
    /\ hosts_dict' = eq.hosts_dict
    /\ host_of' = eq.host_of
    /\ raised' = eq.raised
    /\ UNCHANGED <<microservice_of, affinity_rules>>

traffic_vars == <<scm, tp, total_requests_count, driver_vars, cluster_vars, sched,
                  network>>

\* a cluster whose hosts are empty and whose replicas are not placed yet
PlacementInit ==
    /\ scm = ServiceChainManager(CHOOSE c \in ServiceChains : Len(c.nodes) = 1)
    /\ tp = [duration |-> 0, arrival_interval_ns |-> 2, start_at |-> 1, parallel_user |-> 1]
    /\ total_requests_count = 0
    /\ time = 0
    /\ previous_event = "None"
    /\ next_event = "REQUEST"
    /\ prediction = "None"
    /\ duration_of_next_event = 0
    /\ next_batch_arrival_time = 0
    /\ merged_arrival_table = {}
    /\ completed_requests = 0
    /\ requests = <<>>
    /\ requests_ready_for_thread_generation = <<>>
    /\ active_threads = {}
    /\ active_transmissions = {}
    /\ next_trans_completion_times = <<>>
    /\ load_balancing_needed = [h \in Hosts |-> FALSE]
    /\ err = NoError
    /\ hosts_dict = [h \in Hosts |-> Host(PlacementHostPrototypes[h])]
    /\ host_of = [r \in PlacedReplicas |-> NoHost]
    /\ microservice_of \in ReplicaAllocations
    /\ raised = NoError
    /\ direct_calls = 0
    /\ affinity_rules = [r \in PlacedReplicas |-> no_rules]
    /\ last_call = None
    /\ sched = None
    /\ network = None

\* only a ResourceNotAvailableError is recovered from by the caller
Recoverable == raised \in {NoError, ResourceNotAvailableError}

Orders(S) == {o \in [1..Cardinality(S) -> S] : \A i, j \in DOMAIN o : o[i] = o[j] => i = j}

\* LeastFit.place
LeastFit_place ==
    /\ Recoverable
    /\ \E replicas \in Orders(PlacedReplicas) :
          SetEquipment(reschedule([Equipment EXCEPT !.raised = NoError], replicas, 1))
    /\ last_call' = None
    /\ UNCHANGED <<direct_calls, traffic_vars>>

\* an assignment to MicroserviceReplica.host
MicroserviceReplica_host ==
    /\ Recoverable
    /\ \E replica \in PlacedReplicas, host \in Hosts \cup {NoHost} :
          SetEquipment(set_host([Equipment EXCEPT !.raised = NoError], replica, host))
    /\ last_call' = None
    /\ UNCHANGED <<direct_calls, traffic_vars>>

ResourcesOf(h) == {<<"ram", 1>>, <<"blkio", 1>>} \cup {<<"cpu", i>> : i \in DOMAIN hosts_dict[h].cpu}

ResourceAt(h, res) ==
    IF res[1] = "cpu" THEN hosts_dict[h].cpu[res[2]]
    ELSE IF res[1] = "ram" THEN hosts_dict[h].ram ELSE hosts_dict[h].blkio

WithResource(h, res, value) ==
    IF res[1] = "cpu" THEN [hosts_dict EXCEPT ![h].cpu[res[2]] = value]
    ELSE IF res[1] = "ram" THEN [hosts_dict EXCEPT ![h].ram = value]
    ELSE [hosts_dict EXCEPT ![h].blkio = value]

\* a call of reserve on a core, a RAM set or a storage
Resource_reserve ==
    /\ Recoverable /\ direct_calls < MaxDirectCalls
    /\ \E h \in Hosts : \E res \in ResourcesOf(h) : \E amount \in DirectAmounts :
          LET o == reserve(ResourceAt(h, res), amount)
          IN /\ hosts_dict' = WithResource(h, res, o.res)
             /\ raised' = o.raised
             /\ last_call' = <<"reserve", h, res, amount>>
    /\ direct_calls' = direct_calls + 1
    /\ UNCHANGED <<host_of, microservice_of, affinity_rules, traffic_vars>>

\* a call of release on a core, a RAM set or a storage
Resource_release ==
    /\ Recoverable /\ direct_calls < MaxDirectCalls
    /\ \E h \in Hosts : \E res \in ResourcesOf(h) : \E amount \in DirectAmounts :
          LET o == release(ResourceAt(h, res), amount)
          IN /\ hosts_dict' = WithResource(h, res, o.res)
             /\ raised' = o.raised
             /\ last_call' = <<"release", h, res, amount>>
    /\ direct_calls' = direct_calls + 1
    /\ UNCHANGED <<host_of, microservice_of, affinity_rules, traffic_vars>>

PlacementNext ==
    \/ LeastFit_place
    \/ MicroserviceReplica_host
    \/ Resource_reserve
    \/ Resource_release

PlacementSpec == PlacementInit /\ [][PlacementNext]_vars

\* ------------------------------------------ resources under direct calls
\* guaranteed replicas, moved between the hosts, around the direct calls
ResourceInit ==
    /\ PlacementInit
    /\ \E ras \in ResourceAllocationScenarios :
          /\ is_guaranteed(ras)
          /\ microservice_of = [r \in PlacedReplicas |-> ras]

ResourceNext ==
    \/ MicroserviceReplica_host
    \/ Resource_reserve
    \/ Resource_release

ResourceSpec == ResourceInit /\ [][ResourceNext]_vars

\* ------------------------------------------------ placement under affinity
\* replicas with one allocation for all, not placed yet, and no rules yet
AffinityInit ==
    /\ PlacementInit
    /\ \E ras \in ResourceAllocationScenarios :
          microservice_of = [r \in PlacedReplicas |-> ras]

RECURSIVE rules_count(_)
rules_count(S) ==
    IF S = {} THEN 0
    ELSE LET r == CHOOSE x \in S : TRUE
         IN Cardinality(affinity_rules[r].ms_affinity_rules)
            + Cardinality(affinity_rules[r].host_affinity_rules)
            + Cardinality(affinity_rules[r].ms_antiaffinity_rules)
            + Cardinality(affinity_rules[r].host_antiaffinity_rules)
            + rules_count(S \ {r})

rules_can_be_added == Recoverable /\ rules_count(PlacedReplicas) < MaxRules

\* Microservice.add_microservice_affinity_with
add_microservice_affinity_with ==
    /\ rules_can_be_added
    /\ \E self \in PlacedReplicas : \E ms \in PlacedReplicas \ {self} :
          /\ ms \notin affinity_rules[self].ms_affinity_rules
          /\ affinity_rules' = [affinity_rules EXCEPT ![self].ms_affinity_rules = @ \cup {ms}]
    /\ UNCHANGED <<hosts_dict, host_of, microservice_of, raised, direct_calls,
                   last_call, traffic_vars>>

\* Microservice.add_host_affinity_with
add_host_affinity_with ==
    /\ rules_can_be_added
    /\ \E self \in PlacedReplicas : \E host \in Hosts :
          /\ host \notin affinity_rules[self].host_affinity_rules
          /\ affinity_rules' = [affinity_rules EXCEPT ![self].host_affinity_rules = @ \cup {host}]
    /\ UNCHANGED <<hosts_dict, host_of, microservice_of, raised, direct_calls,
                   last_call, traffic_vars>>

\* Microservice.add_microservice_anti_affinity_with
add_microservice_anti_affinity_with ==
    /\ rules_can_be_added
    /\ \E self \in PlacedReplicas : \E ms \in PlacedReplicas \ {self} :
          /\ ms \notin affinity_rules[self].ms_antiaffinity_rules
          /\ affinity_rules' = [affinity_rules EXCEPT ![self].ms_antiaffinity_rules = @ \cup {ms}]
    /\ UNCHANGED <<hosts_dict, host_of, microservice_of, raised, direct_calls,
                   last_call, traffic_vars>>

\* Microservice.add_host_anti_affinity_with
add_host_anti_affinity_with ==
    /\ rules_can_be_added
    /\ \E self \in PlacedReplicas : \E host \in Hosts :
          /\ host \notin affinity_rules[self].host_antiaffinity_rules
          /\ affinity_rules' = [affinity_rules EXCEPT ![self].host_antiaffinity_rules = @ \cup {host}]
    /\ UNCHANGED <<hosts_dict, host_of, microservice_of, raised, direct_calls,
                   last_call, traffic_vars>>

AffinityNext ==
    \/ add_microservice_affinity_with
    \/ add_host_affinity_with
    \/ add_microservice_anti_affinity_with
    \/ add_host_anti_affinity_with
    \/ LeastFit_place

AffinitySpec == AffinityInit /\ [][AffinityNext]_vars

\* ------------------------------------------ run queues and CPU of one host
\* The scheduler state of one host is a record sch: the threads made so far
\* (a thread's id is its index), the run queue of every core (cores are
\* numbered from 0), the indices of the CPU, the processes of the replicas
\* placed on the host, and the exception that ended the call, if any.
\* Shares are whole millicores: a division rounds down where the code's float
\* division rounds to the nearest float.  average_load is counted in halves
\* (2 is a CPU usage of 1, 1 a usage of 1/2), and every load in units of
\* 1024/4000, so that a thread of share s has load 2 * average_load * s and
\* weighs average_load * average_load * s on its run queue.
NoCore == -1

Throw(sch, message) == [sch EXCEPT !.raised = message]

pair_id(core_id) == core_id \div 2

Pairs(sch) == {pair_id(c) : c \in 0..(sch.cores - 1)}

\* a Python set of threads is iterated in an order fixed by the objects'
\* addresses: here by ascending or by descending id
first_of(sch, S) ==
    IF sch.hash_order = "ascending" THEN CHOOSE x \in S : \A y \in S : x <= y
    ELSE CHOOSE x \in S : \A y \in S : x >= y

\* service_chain/microservice.py
is_best_effort(ms) == ms.cpu_limits = ms.cpu_requests /\ ms.cpu_requests = -1

\* service_chain/thread_set.py
ThreadSet == [members |-> {}, sum_cpu_requests |-> 0]

ThreadSet_add(sch, c, type_of_set, t) ==
    [sch EXCEPT
        !.runqueue[c][type_of_set].sum_cpu_requests = @ + sch.threads[t].cpu_requests_share,
        !.runqueue[c][type_of_set].members = @ \cup {t},
        !.runqueue[c].thread_set_dict = @ \cup {<<t, type_of_set>>}]

ThreadSet_remove(sch, c, type_of_set, t) ==
    LET s1 == [sch EXCEPT !.runqueue[c][type_of_set].sum_cpu_requests =
                              @ - sch.threads[t].cpu_requests_share]
    IN IF <<t, type_of_set>> \notin sch.runqueue[c].thread_set_dict
          \/ t \notin sch.runqueue[c][type_of_set].members
       THEN Throw(s1, "KeyError")
       ELSE [s1 EXCEPT !.runqueue[c][type_of_set].members = @ \ {t},
                       !.runqueue[c].thread_set_dict = @ \ {<<t, type_of_set>>}]

\* equipments/run_queue.py
RunQueue ==
    [rq |-> <<>>, active_threads |-> {},
     best_effort_active_threads |-> ThreadSet,
     guaranteed_active_threads |-> ThreadSet,
     burstable_active_threads |-> ThreadSet,
     burstable_unlimited_active_threads |-> ThreadSet,
     burstable_limited_active_threads |-> ThreadSet,
     load |-> 0, lightest_threads_in_rq |-> {}, thread_set_dict |-> {},
     remaining_millicores |-> max_cpu_requests]

\* RunQueue.lightest_threads_in_rq, a set of <<load, vruntime, thread>>
remove_from_lightest_threads_in_rq(sch, c, t) ==
    [sch EXCEPT !.runqueue[c].lightest_threads_in_rq =
        @ \ {<<sch.threads[t].load, sch.threads[t].vruntime, t>>}]

add_to_lightest_threads_in_rq(sch, c, t) ==
    [sch EXCEPT !.runqueue[c].lightest_threads_in_rq =
        @ \cup {<<sch.threads[t].load, sch.threads[t].vruntime, t>>}]

\* equipments/cpu.py: the sorted indices; threads_sorted is a set of
\* <<inverted load, vruntime, thread>>, pairs_sorted of <<inverted load, pair>>
add_to_pairs_sorted(sch, pair, inverted_pair_load) ==
    [sch EXCEPT !.pairs_sorted = @ \cup {<<inverted_pair_load, pair>>}]

remove_from_pairs_sorted(sch, pair, inverted_pair_load) ==
    [sch EXCEPT !.pairs_sorted = @ \ {<<inverted_pair_load, pair>>}]

add_to_threads_sorted(sch, t, inverted_thread_load) ==
    IF sch.raised # NoError THEN sch
    ELSE IF sch.threads[t].core = NoCore
    THEN Throw(sch, "AttributeError: 'NoneType' object has no attribute 'runqueue'")
    ELSE add_to_lightest_threads_in_rq(
            [sch EXCEPT !.threads_sorted =
                @ \cup {<<inverted_thread_load, sch.threads[t].vruntime, t>>}],
            sch.threads[t].core, t)

remove_from_threads_sorted(sch, t, inverted_thread_load) ==
    IF sch.raised # NoError THEN sch
    ELSE IF \A e \in sch.threads_sorted : e[1] # inverted_thread_load
    THEN Throw(sch, "ValueError: Thread is not in threads_sorted")
    ELSE IF \A e \in sch.threads_sorted :
                ~(e[1] = inverted_thread_load /\ e[2] = sch.threads[t].vruntime)
    THEN Throw(sch, "ValueError: Thread is not in threads_sorted[vruntime]")
    ELSE LET s1 == [sch EXCEPT !.threads_sorted =
                       @ \ {<<inverted_thread_load, sch.threads[t].vruntime, t>>}]
         IN IF sch.threads[t].core = NoCore THEN s1
            ELSE remove_from_lightest_threads_in_rq(s1, sch.threads[t].core, t)

\* CPU.get_the_other_core_in_pair; NoCore stands for None
get_the_other_core_in_pair(sch, core_id, return_same_if_not_exists) ==
    IF core_id % 2 = 0
    THEN IF core_id + 1 >= sch.cores
         THEN IF return_same_if_not_exists THEN core_id ELSE NoCore
         ELSE core_id + 1
    ELSE core_id - 1

\* CPU.update_idle_pairs
update_idle_pairs_without_the_idle_cores(sch, c) ==
    IF sch.raised # NoError THEN sch
    ELSE LET other == get_the_other_core_in_pair(sch, c, FALSE)
             total_active_threads_in_pair ==
                 Cardinality(sch.runqueue[c].active_threads)
                 + (IF other = NoCore THEN 0
                    ELSE Cardinality(sch.runqueue[other].active_threads))
             s1 == IF total_active_threads_in_pair > 0
                   THEN [sch EXCEPT
                           !.idle_core_pair_ids[pair_id(c)] = @ \ {c},
                           !.idle_pair_ids =
                               IF Cardinality(sch.idle_core_pair_ids[pair_id(c)] \ {c}) # 2
                               THEN @ \ {pair_id(c)} ELSE @]
                   ELSE [sch EXCEPT
                           !.idle_core_pair_ids[pair_id(c)] = @ \cup {c},
                           !.idle_pair_ids = @ \cup {pair_id(c)}]
         IN s1

update_idle_pairs(sch, c) ==
    IF sch.raised # NoError THEN sch
    ELSE LET other == get_the_other_core_in_pair(sch, c, FALSE)
             total_active_threads_in_pair ==
                 Cardinality(sch.runqueue[c].active_threads)
                 + (IF other = NoCore THEN 0
                    ELSE Cardinality(sch.runqueue[other].active_threads))
             s1 == IF total_active_threads_in_pair > 0
                   THEN [sch EXCEPT
                           !.idle_core_pair_ids[pair_id(c)] = @ \ {c},
                           !.idle_pair_ids =
                               IF Cardinality(sch.idle_core_pair_ids[pair_id(c)] \ {c}) # 2
                               THEN @ \ {pair_id(c)} ELSE @]
                   ELSE [sch EXCEPT
                           !.idle_core_pair_ids[pair_id(c)] = @ \cup {c},
                           !.idle_pair_ids = @ \cup {pair_id(c)}]
         IN [s1 EXCEPT !.idle_core_ids =
                IF sch.runqueue[c].active_threads = {} THEN @ \cup {c} ELSE @ \ {c}]

\* the setter of RunQueue.load
RunQueue_load(sch, c, v) ==
    IF sch.raised # NoError \/ sch.runqueue[c].load = v THEN sch
    ELSE LET pair == pair_id(c)
             other == get_the_other_core_in_pair(sch, c, FALSE)
             pair_load == IF other # NoCore THEN sch.runqueue[other].load + v ELSE v
         IN add_to_pairs_sorted(
                [remove_from_pairs_sorted(sch, pair, (0 - sch.pairs_load[pair]))
                    EXCEPT !.runqueue[c].load = v, !.pairs_load[pair] = pair_load],
                pair, (0 - pair_load))

\* runqueue.load += delta, through the setter of RunQueue.load
add_to_runqueue_load(sch, c, delta) ==
    IF sch.raised # NoError THEN sch
    ELSE RunQueue_load(sch, c, sch.runqueue[c].load + delta)

\* service_chain/replica_thread.py: the setters of a thread's attributes
ReplicaThread_load(sch, t, v) ==
    LET set(s) == IF s.raised # NoError THEN s ELSE [s EXCEPT !.threads[t].load = v]
    IN IF sch.raised # NoError THEN sch
       ELSE IF sch.threads[t].core = NoCore THEN set(sch)
       ELSE IF sch.threads[t].load = v THEN sch
       ELSE add_to_runqueue_load(
               add_to_threads_sorted(
                   set(add_to_runqueue_load(
                           remove_from_threads_sorted(sch, t, (0 - sch.threads[t].load)),
                           sch.threads[t].core, (0 - sch.threads[t].load))),
                   t, (0 - v)),
               sch.threads[t].core, v)

ReplicaThread_core(sch, t, v) ==
    LET set(s) == IF s.raised # NoError THEN s ELSE [s EXCEPT !.threads[t].core = v]
        removed(s) == IF s.threads[t].core # NoCore
                      THEN remove_from_threads_sorted(s, t, (0 - s.threads[t].load))
                      ELSE s
    IN IF sch.raised # NoError THEN sch
       ELSE IF v # NoCore
       THEN add_to_threads_sorted(set(removed(sch)), t, (0 - sch.threads[t].load))
       ELSE set(removed(sch))

ReplicaThread_vruntime(sch, t, v) ==
    LET set(s) == IF s.raised # NoError THEN s ELSE [s EXCEPT !.threads[t].vruntime = v]
        removed(s) == IF v > 0 /\ s.threads[t].core # NoCore
                      THEN remove_from_threads_sorted(s, t, (0 - s.threads[t].load))
                      ELSE s
    IN IF sch.raised # NoError THEN sch
       ELSE IF sch.threads[t].core # NoCore
       THEN add_to_threads_sorted(set(removed(sch)), t, (0 - sch.threads[t].load))
       ELSE set(removed(sch))

RECURSIVE subtract_from_sums(_, _, _, _)
\* the loop over thread_set_dict[thread.id] in the setter of cpu_requests_share
subtract_from_sums(sch, c, sets, difference) ==
    IF sets = {} THEN sch
    ELSE LET type_of_set == CHOOSE x \in sets : TRUE
         IN subtract_from_sums(
                [sch EXCEPT !.runqueue[c][type_of_set].sum_cpu_requests = @ - difference],
                c, sets \ {type_of_set}, difference)

ReplicaThread_cpu_requests_share(sch, t, v) ==
    LET difference == sch.threads[t].cpu_requests_share - v
        subtracted(s) ==
            IF s.raised # NoError \/ s.threads[t].core = NoCore \/ difference = 0 THEN s
            ELSE subtract_from_sums(
                    s, s.threads[t].core,
                    {e[2] : e \in {d \in s.runqueue[s.threads[t].core].thread_set_dict :
                                      d[1] = t}},
                    difference)
    IN IF sch.raised # NoError THEN sch
       ELSE IF v > 1000
       THEN Throw(sch, "CPU requests share cannot be greater than 1000 in a single thread")
       ELSE subtracted(
               ReplicaThread_load([sch EXCEPT !.threads[t].cpu_requests_share = v],
                                  t, 2 * sch.threads[t].average_load * v))

\* service_chain/process.py; NoShare stands for None
NoShare == -2

Process_get_cpu_request_per_thread(sch, p) ==
    LET ms == sch.processes[p].microservice
        n == sch.processes[p].active_threads_count
        share_per_thread ==
            IF is_unlimited_burstable(ms) \/ is_guaranteed(ms) THEN ms.cpu_requests \div n
            ELSE IF is_limited_burstable(ms) THEN ms.cpu_limits \div n
            ELSE max_cpu_requests \div n
    IN IF n = 0 THEN NoShare
       ELSE IF share_per_thread < max_cpu_requests THEN share_per_thread
       ELSE max_cpu_requests

\* RunQueue.assign_cpu_requests_share
assign_cpu_requests_share(sch, c, t, cpu_requests) ==
    IF sch.raised # NoError THEN sch
    ELSE IF cpu_requests = NoShare THEN Throw(sch, "CPU requests cannot be None")
    ELSE IF ~sch.threads[t].on_rq THEN Throw(sch, "How come thread is not in the rq?!")
    ELSE IF cpu_requests <= max_cpu_requests
    THEN ReplicaThread_cpu_requests_share(sch, t, cpu_requests)
    ELSE ReplicaThread_cpu_requests_share(sch, t, max_cpu_requests)

\* RunQueue.categorize_thread_into_sets
categorize_thread_into_sets(sch, c, t) ==
    LET ms == sch.processes[sch.threads[t].process].microservice
    IN IF sch.raised # NoError THEN sch
       ELSE IF is_best_effort(ms) THEN ThreadSet_add(sch, c, "best_effort_active_threads", t)
       ELSE IF is_guaranteed(ms) THEN ThreadSet_add(sch, c, "guaranteed_active_threads", t)
       ELSE IF is_burstable(ms)
       THEN LET s1 == ThreadSet_add(sch, c, "burstable_active_threads", t)
            IN IF is_unlimited_burstable(ms)
               THEN ThreadSet_add(s1, c, "burstable_unlimited_active_threads", t)
               ELSE ThreadSet_add(s1, c, "burstable_limited_active_threads", t)
       ELSE Throw(sch, "Unknown thread type")

\* RunQueue.decategorize_thread_from_sets
decategorize_thread_from_sets(sch, c, t) ==
    LET ms == sch.processes[sch.threads[t].process].microservice
    IN IF sch.raised # NoError THEN sch
       ELSE IF is_best_effort(ms) THEN ThreadSet_remove(sch, c, "best_effort_active_threads", t)
       ELSE IF is_guaranteed(ms) THEN ThreadSet_remove(sch, c, "guaranteed_active_threads", t)
       ELSE IF is_burstable(ms)
       THEN LET s1 == ThreadSet_remove(sch, c, "burstable_active_threads", t)
            IN IF s1.raised # NoError THEN s1
               ELSE IF is_unlimited_burstable(ms)
               THEN ThreadSet_remove(s1, c, "burstable_unlimited_active_threads", t)
               ELSE ThreadSet_remove(s1, c, "burstable_limited_active_threads", t)
       ELSE Throw(sch, "Unknown thread type")

\* RunQueue.enqueue_task; every caller passes load_balance = False
enqueue_task(sch, c, t) ==
    LET on_rq(s) ==
            IF s.raised # NoError THEN s
            ELSE [s EXCEPT !.runqueue[c].rq = Append(@, t),
                           !.runqueue[c].active_threads = @ \cup {t},
                           !.active_threads = @ \cup {t}]
        loaded(s) ==
            IF s.raised # NoError THEN s
            ELSE IF ~s.threads[t].on_rq
            THEN Throw(s, "How come a thread with on_rq==False attempts to get enqueued?")
            ELSE add_to_runqueue_load(
                    s, c, (s.threads[t].average_load * s.threads[t].load) \div 2)
        shared(s) ==
            IF s.raised # NoError THEN s
            ELSE assign_cpu_requests_share(
                    s, c, t, Process_get_cpu_request_per_thread(s, s.threads[t].process))
        on_host(s) ==
            IF s.raised # NoError THEN s
            ELSE [s EXCEPT !.host_threads = @ \cup {t}, !.load_balancing_needed = TRUE]
        sorted(s) ==
            IF s.raised # NoError THEN s
            ELSE add_to_threads_sorted(s, t, (0 - s.threads[t].load))
    IN IF sch.raised # NoError THEN sch
       ELSE IF sch.threads[t].core # NoCore
       THEN Throw(sch, "Error: ReplicaThread already belongs to a core/runqueue")
       ELSE IF sch.threads[t].instructions <= 0
       THEN Throw(sch, "Why on earth a zombie thread is enqueuing on a rq?")
       ELSE update_idle_pairs(
               sorted(on_host(shared(loaded(
                   categorize_thread_into_sets(on_rq(ReplicaThread_core(sch, t, c)), c, t))))),
               c)

\* RunQueue.dequeue_task_by_thread, called with load_balance = False
dequeue_task_without_clearing_the_core(sch, c, t) ==
    LET unloaded(s) ==
            IF s.raised # NoError THEN s
            ELSE add_to_runqueue_load(
                    s, c, (0 - ((s.threads[t].average_load * s.threads[t].load) \div 2)))
    IN IF sch.raised # NoError THEN sch
       ELSE IF ~sch.threads[t].on_rq
       THEN Throw(sch, "How come a thread with on_rq==False attempts to get dequeued?")
       ELSE IF ~Contains(sch.runqueue[c].rq, t) THEN Throw(sch, "ValueError: not in list")
       ELSE IF t \notin sch.runqueue[c].active_threads
       THEN Throw([sch EXCEPT !.runqueue[c].rq = RemoveFirst(@, t)], "KeyError")
       ELSE update_idle_pairs(
               unloaded(
                   remove_from_threads_sorted(
                       decategorize_thread_from_sets(
                           remove_from_lightest_threads_in_rq(
                               [sch EXCEPT !.runqueue[c].rq = RemoveFirst(@, t),
                                           !.runqueue[c].active_threads = @ \ {t}],
                               c, t),
                           c, t),
                       t, (0 - sch.threads[t].load))),
               c)

dequeue_task_by_thread(sch, c, t) ==
    LET unloaded(s) ==
            IF s.raised # NoError THEN s
            ELSE add_to_runqueue_load(
                    s, c, (0 - ((s.threads[t].average_load * s.threads[t].load) \div 2)))
    IN IF sch.raised # NoError THEN sch
       ELSE IF ~sch.threads[t].on_rq
       THEN Throw(sch, "How come a thread with on_rq==False attempts to get dequeued?")
       ELSE IF ~Contains(sch.runqueue[c].rq, t) THEN Throw(sch, "ValueError: not in list")
       ELSE IF t \notin sch.runqueue[c].active_threads
       THEN Throw([sch EXCEPT !.runqueue[c].rq = RemoveFirst(@, t)], "KeyError")
       ELSE update_idle_pairs(
               unloaded(
                   ReplicaThread_core(
                       decategorize_thread_from_sets(
                           remove_from_lightest_threads_in_rq(
                               [sch EXCEPT !.runqueue[c].rq = RemoveFirst(@, t),
                                           !.runqueue[c].active_threads = @ \ {t}],
                               c, t),
                           c, t),
                       t, NoCore)),
               c)

RECURSIVE assign_to_each(_, _, _)
\* the loops of recalculate_cpu_requests_shares over the guaranteed and over
\* the burstable threads
assign_to_each(sch, c, todo) ==
    IF todo = {} \/ sch.raised # NoError THEN sch
    ELSE LET t == first_of(sch, todo)
         IN assign_to_each(
                assign_cpu_requests_share(
                    sch, c, t, Process_get_cpu_request_per_thread(sch, sch.threads[t].process)),
                c, todo \ {t})

RECURSIVE assign_remaining_to_each(_, _, _, _)
\* the loop over the unlimited burstable threads
assign_remaining_to_each(sch, c, todo, remaining_millicores) ==
    IF todo = {} \/ sch.raised # NoError THEN sch
    ELSE LET t == first_of(sch, todo)
             per_thread == Process_get_cpu_request_per_thread(sch, sch.threads[t].process)
             sum == sch.runqueue[c].burstable_active_threads.sum_cpu_requests
             share == (remaining_millicores * per_thread) \div sum
         IN IF sum = 0 THEN Throw(sch, "ZeroDivisionError")
            ELSE assign_remaining_to_each(
                    assign_cpu_requests_share(
                        sch, c, t, sch.threads[t].cpu_requests_share + share),
                    c, todo \ {t}, remaining_millicores)

RECURSIVE assign_fair_share_to_each(_, _, _, _)
\* the loop over the best-effort threads
assign_fair_share_to_each(sch, c, todo, fair_share_be) ==
    IF todo = {} \/ sch.raised # NoError THEN sch
    ELSE LET t == first_of(sch, todo)
         IN assign_fair_share_to_each(
                assign_cpu_requests_share(sch, c, t, fair_share_be),
                c, todo \ {t}, fair_share_be)

\* RunQueue.recalculate_cpu_requests_shares
RunQueue_recalculate_without_the_burstable_loop(sch, c) ==
    LET guaranteed(s) ==
            assign_to_each([s EXCEPT !.runqueue[c].remaining_millicores = max_cpu_requests],
                           c, s.runqueue[c].guaranteed_active_threads.members)
        remaining_for_unlimited(s) ==
            s.runqueue[c].remaining_millicores
            - (s.runqueue[c].guaranteed_active_threads.sum_cpu_requests
               + s.runqueue[c].burstable_active_threads.sum_cpu_requests)
        unlimited_burstable(s) ==
            IF s.raised # NoError THEN s
            ELSE assign_remaining_to_each(
                    [s EXCEPT !.runqueue[c].remaining_millicores = remaining_for_unlimited(s)],
                    c, s.runqueue[c].burstable_unlimited_active_threads.members,
                    remaining_for_unlimited(s))
        remaining_for_best_effort(s) ==
            s.runqueue[c].remaining_millicores
            - s.runqueue[c].burstable_unlimited_active_threads.sum_cpu_requests
        n(s) == Cardinality(s.runqueue[c].best_effort_active_threads.members)
        best_effort_threads(s) ==
            IF s.raised # NoError THEN s
            ELSE IF remaining_for_best_effort(s) > 0 /\ n(s) > 0
            THEN assign_fair_share_to_each(
                    [s EXCEPT !.runqueue[c].remaining_millicores =
                         remaining_for_best_effort(s)
                         - (remaining_for_best_effort(s) \div n(s)) * n(s)],
                    c, s.runqueue[c].best_effort_active_threads.members,
                    remaining_for_best_effort(s) \div n(s))
            ELSE [s EXCEPT !.runqueue[c].remaining_millicores = remaining_for_best_effort(s)]
    IN IF sch.raised # NoError \/ sch.runqueue[c].active_threads = {} THEN sch
       ELSE best_effort_threads(unlimited_burstable(guaranteed(sch)))

RunQueue_recalculate_cpu_requests_shares(sch, c) ==
    LET guaranteed(s) ==
            assign_to_each([s EXCEPT !.runqueue[c].remaining_millicores = max_cpu_requests],
                           c, s.runqueue[c].guaranteed_active_threads.members)
        burstable(s) ==
            IF s.raised # NoError THEN s
            ELSE assign_to_each(s, c, s.runqueue[c].burstable_active_threads.members)
        remaining_for_unlimited(s) ==
            s.runqueue[c].remaining_millicores
            - (s.runqueue[c].guaranteed_active_threads.sum_cpu_requests
               + s.runqueue[c].burstable_active_threads.sum_cpu_requests)
        unlimited_burstable(s) ==
            IF s.raised # NoError THEN s
            ELSE assign_remaining_to_each(
                    [s EXCEPT !.runqueue[c].remaining_millicores = remaining_for_unlimited(s)],
                    c, s.runqueue[c].burstable_unlimited_active_threads.members,
                    remaining_for_unlimited(s))
        remaining_for_best_effort(s) ==
            s.runqueue[c].remaining_millicores
            - s.runqueue[c].burstable_unlimited_active_threads.sum_cpu_requests
        n(s) == Cardinality(s.runqueue[c].best_effort_active_threads.members)
        best_effort_threads(s) ==
            IF s.raised # NoError THEN s
            ELSE IF remaining_for_best_effort(s) > 0 /\ n(s) > 0
            THEN assign_fair_share_to_each(
                    [s EXCEPT !.runqueue[c].remaining_millicores =
                         remaining_for_best_effort(s)
                         - (remaining_for_best_effort(s) \div n(s)) * n(s)],
                    c, s.runqueue[c].best_effort_active_threads.members,
                    remaining_for_best_effort(s) \div n(s))
            ELSE [s EXCEPT !.runqueue[c].remaining_millicores = remaining_for_best_effort(s)]
    IN IF sch.raised # NoError \/ sch.runqueue[c].active_threads = {} THEN sch
       ELSE best_effort_threads(unlimited_burstable(burstable(guaranteed(sch))))

RECURSIVE recalculate_on_cores(_, _)
recalculate_on_cores(sch, c) ==
    IF c >= sch.cores \/ sch.raised # NoError THEN sch
    ELSE recalculate_on_cores(RunQueue_recalculate_cpu_requests_shares(sch, c), c + 1)

\* CPU.recalculate_cpu_requests_shares
CPU_recalculate_cpu_requests_shares(sch) == recalculate_on_cores(sch, 0)

\* ReplicaThread.kill
kill(sch, t) ==
    LET off_rq(s) == IF s.raised # NoError THEN s ELSE [s EXCEPT !.threads[t].on_rq = FALSE]
    IN IF sch.raised # NoError THEN sch
       ELSE IF t \notin sch.host_threads \/ t \notin sch.active_threads
       THEN Throw(sch, "KeyError")
       ELSE off_rq(
               dequeue_task_by_thread(
                   [sch EXCEPT !.processes[sch.threads[t].process].active_threads_count = @ - 1,
                               !.host_threads = @ \ {t},
                               !.active_threads = @ \ {t},
                               !.load_balancing_needed = sch.host_threads \ {t} # {}],
                   sch.threads[t].core, t))

\* ------------------------------------------------ equipments/cpu.py: balance
sched_domain_hierarchy == <<"core pairs", "node">>

\* CPU.get_idle_core_in_sd; -1 when the domain has no idle core to wait for
get_idle_core_in_sd(sch, sd_name, core_id) ==
    IF sd_name = sched_domain_hierarchy[1]
    THEN LET the_other_core_id_in_pair == get_the_other_core_in_pair(sch, core_id, TRUE)
         IN IF the_other_core_id_in_pair \in sch.idle_core_pair_ids[pair_id(core_id)]
            THEN the_other_core_id_in_pair
            ELSE IF core_id \in sch.idle_core_ids THEN core_id
            ELSE -1
    ELSE IF sch.idle_pair_ids # {}
         THEN Min(sch.idle_core_pair_ids[Min(sch.idle_pair_ids)])
         ELSE -1

\* CPU.get_busiest_core_in_pair_by_core_id
get_busiest_core_in_pair_by_core_id(sch, core_id) ==
    LET other == get_the_other_core_in_pair(sch, core_id, FALSE)
    IN IF other = NoCore THEN core_id
       ELSE IF sch.runqueue[core_id].load > sch.runqueue[other].load THEN core_id
       ELSE IF sch.runqueue[core_id].load < sch.runqueue[other].load THEN other
       ELSE IF Cardinality(sch.runqueue[core_id].active_threads)
               >= Cardinality(sch.runqueue[other].active_threads)
       THEN core_id
       ELSE other

\* CPU.get_busiest_core_in_busiest_pair; NoCore stands for None, and -2 for
\* the exception the function raises
get_busiest_core_in_busiest_pair(sch, current_pair_id) ==
    IF sch.pairs_sorted = {} THEN NoCore
    ELSE LET busiest_pair_inverted_load == Min({e[1] : e \in sch.pairs_sorted})
             busiest_pair_load == (0 - busiest_pair_inverted_load)
             busiest_pairs == {e[2] : e \in {d \in sch.pairs_sorted :
                                                d[1] = busiest_pair_inverted_load}}
             next_busiest_pair ==
                 IF Min(busiest_pairs) = current_pair_id /\ Cardinality(busiest_pairs) > 1
                 THEN Min(busiest_pairs \ {current_pair_id})
                 ELSE Min(busiest_pairs)
         IN IF sch.pairs_load[current_pair_id] > busiest_pair_load THEN -2
            ELSE IF sch.pairs_load[current_pair_id] = busiest_pair_load THEN NoCore
            ELSE get_busiest_core_in_pair_by_core_id(sch, next_busiest_pair * 2)

\* the thread that next(iter(...)) finds first in lightest_threads_in_rq:
\* least load, then least vruntime, then the first of the set
lightest_thread_in(sch, c) ==
    LET lightest == sch.runqueue[c].lightest_threads_in_rq
        load == Min({e[1] : e \in lightest})
        vruntime == Min({e[2] : e \in {d \in lightest : d[1] = load}})
    IN first_of(sch, {e[3] : e \in {d \in lightest : d[1] = load /\ d[2] = vruntime}})

lightest_thread_load_in(sch, c) ==
    Min({e[1] : e \in sch.runqueue[c].lightest_threads_in_rq})

\* dequeue_task_by_thread on the busiest core, then enqueue_task on core_id
migrate(sch, t, from_core, core_id) ==
    enqueue_task(dequeue_task_by_thread(sch, from_core, t), core_id, t)

RECURSIVE balance_in_pair_without_the_load_test(_, _)
\* the lightest thread is moved as long as the busiest core has two threads
balance_in_pair_without_the_load_test(sch, core_id) ==
    LET busiest_core == get_busiest_core_in_pair_by_core_id(sch, core_id)
    IN IF sch.raised # NoError THEN sch
       ELSE IF Cardinality(sch.runqueue[busiest_core].active_threads) <= 1 THEN sch
       ELSE IF sch.runqueue[busiest_core].lightest_threads_in_rq = {}
       THEN Throw(sch, "StopIteration")
       ELSE IF busiest_core # core_id
       THEN balance_in_pair_without_the_load_test(
               migrate(sch, lightest_thread_in(sch, busiest_core), busiest_core, core_id),
               core_id)
       ELSE sch

RECURSIVE balance_in_pair(_, _)
\* the while loop of load_balance_threads_among_runqueues in "core pairs"
balance_in_pair(sch, core_id) ==
    LET busiest_core == get_busiest_core_in_pair_by_core_id(sch, core_id)
    IN IF sch.raised # NoError THEN sch
       ELSE IF Cardinality(sch.runqueue[busiest_core].active_threads) <= 1 THEN sch
       ELSE IF sch.runqueue[busiest_core].lightest_threads_in_rq = {}
       THEN Throw(sch, "StopIteration")
       ELSE IF sch.runqueue[busiest_core].load - lightest_thread_load_in(sch, busiest_core)
               >= sch.runqueue[core_id].load + lightest_thread_load_in(sch, busiest_core)
       THEN balance_in_pair(
               migrate(sch, lightest_thread_in(sch, busiest_core), busiest_core, core_id),
               core_id)
       ELSE sch

RECURSIVE balance_in_node(_, _)
\* the while loop of load_balance_threads_among_runqueues in "node"
balance_in_node(sch, core_id) ==
    LET busiest_core == get_busiest_core_in_busiest_pair(sch, pair_id(core_id))
        other == get_the_other_core_in_pair(sch, busiest_core, FALSE)
        fits(c) ==
            sch.pairs_load[pair_id(c)] - lightest_thread_load_in(sch, c)
            >= sch.pairs_load[pair_id(core_id)] + lightest_thread_load_in(sch, c)
    IN IF sch.raised # NoError THEN sch
       ELSE IF busiest_core = -2
       THEN Throw(sch, "How come the busiest pair is lighter than the current pair")
       ELSE IF busiest_core = NoCore THEN sch
       ELSE IF Cardinality(sch.runqueue[busiest_core].active_threads)
               + (IF other = NoCore THEN 0
                  ELSE Cardinality(sch.runqueue[other].active_threads)) <= 1
       THEN sch
       ELSE IF sch.runqueue[busiest_core].lightest_threads_in_rq = {}
       THEN Throw(sch, "StopIteration")
       ELSE IF fits(busiest_core)
       THEN balance_in_node(
               migrate(sch, lightest_thread_in(sch, busiest_core), busiest_core, core_id),
               core_id)
       ELSE IF other = NoCore THEN Throw(sch, "the loop does not end")
       ELSE IF sch.runqueue[other].active_threads = {} THEN sch
       ELSE IF sch.runqueue[other].lightest_threads_in_rq = {}
       THEN Throw(sch, "StopIteration")
       ELSE IF fits(other)
       THEN balance_in_node(
               migrate(sch, lightest_thread_in(sch, other), other, core_id),
               core_id)
       ELSE sch

RECURSIVE balance_from(_, _, _)
\* the loops over the cores and over the sched domains
balance_from(sch, core_id, sd) ==
    IF core_id >= sch.cores \/ sch.raised # NoError THEN sch
    ELSE IF sd > Len(sched_domain_hierarchy) THEN balance_from(sch, core_id + 1, 1)
    ELSE LET idle_core == get_idle_core_in_sd(sch, sched_domain_hierarchy[sd], core_id)
         IN IF idle_core # -1 /\ core_id # idle_core
            THEN balance_from(sch, core_id, sd + 1)
            ELSE IF sd = 1
            THEN balance_from(balance_in_pair(sch, core_id), core_id, sd + 1)
            ELSE balance_from(balance_in_node(sch, core_id), core_id, sd + 1)

\* CPU.load_balance_threads_among_runqueues
load_balance_threads_among_runqueues(sch) ==
    LET balanced(s) ==
            IF s.raised # NoError THEN s ELSE [s EXCEPT !.load_balancing_needed = FALSE]
    IN balanced(balance_from(sch, 0, 1))

RECURSIVE heaviest_thread_for(_, _, _, _)
\* the scan of threads_sorted in emergency_load_balance_idle_cores: the first
\* live thread of another core whose run queue holds more than one thread
\* (0 if there is none), and the entries to discard met on the way
heaviest_thread_for(sch, core_id, todo, to_discard) ==
    IF todo = {} THEN [heaviest_thread |-> 0, to_discard |-> to_discard, raised |-> NoError]
    ELSE LET thread_load == Min({e[1] : e \in todo})
             vruntime == Min({e[2] : e \in {d \in todo : d[1] = thread_load}})
             t == first_of(sch, {e[3] : e \in {d \in todo :
                                    d[1] = thread_load /\ d[2] = vruntime}})
             thread == sch.threads[t]
             rest == todo \ {<<thread_load, vruntime, t>>}
         IN IF ~thread.on_rq \/ thread.load <= 0 \/ thread.instructions <= 0
            THEN heaviest_thread_for(sch, core_id, rest,
                                     to_discard \cup {<<thread_load, t>>})
            ELSE IF thread.core = NoCore
            THEN [heaviest_thread |-> 0, to_discard |-> to_discard,
                  raised |-> "AttributeError: 'NoneType' object has no attribute 'runqueue'"]
            ELSE IF thread.core = core_id \/ Len(sch.runqueue[thread.core].rq) <= 1
            THEN heaviest_thread_for(sch, core_id, rest, to_discard)
            ELSE [heaviest_thread |-> t, to_discard |-> to_discard, raised |-> NoError]

RECURSIVE discard_each(_, _)
discard_each(sch, to_discard) ==
    IF to_discard = {} \/ sch.raised # NoError THEN sch
    ELSE LET x == CHOOSE y \in to_discard : TRUE
         IN discard_each(remove_from_threads_sorted(sch, x[2], x[1]), to_discard \ {x})

RECURSIVE emergency_from(_, _)
\* the loop over idle_core_ids, a sorted set that enqueue_task shrinks while
\* it is iterated: i is the position the iterator has reached
emergency_from(sch, i) ==
    LET core_id == SeqOfInts(sch.idle_core_ids)[i]
        found == heaviest_thread_for(sch, core_id, sch.threads_sorted, {})
    IN IF sch.raised # NoError \/ i > Cardinality(sch.idle_core_ids) THEN sch
       ELSE IF found.raised # NoError THEN Throw(sch, found.raised)
       ELSE IF found.heaviest_thread = 0
       THEN emergency_from(discard_each(sch, found.to_discard), i + 1)
       ELSE emergency_from(
               migrate(discard_each(sch, found.to_discard), found.heaviest_thread,
                       sch.threads[found.heaviest_thread].core, core_id),
               i + 1)

\* CPU.emergency_load_balance_idle_cores
emergency_load_balance_idle_cores(sch) == emergency_from(sch, 1)

RECURSIVE kill_each(_, _)
kill_each(sch, zombies) ==
    IF zombies = {} \/ sch.raised # NoError THEN sch
    ELSE LET t == first_of(sch, zombies)
         IN IF sch.threads[t].instructions > 0 THEN Throw(sch, "How is that even possible!?")
            ELSE kill_each(kill(sch, t), zombies \ {t})

\* kill_zombie_threads that empties the zombie set and kills none of them
forget_zombie_threads(sch) ==
    IF sch.raised # NoError THEN sch ELSE [sch EXCEPT !.zombie_threads = {}]

\* CPU.kill_zombie_threads
CPU_kill_zombie_threads(sch) ==
    LET cleared(s) == IF s.raised # NoError THEN s ELSE [s EXCEPT !.zombie_threads = {}]
    IN cleared(kill_each(sch, sch.zombie_threads))

\* CPU.load_balance
CPU_load_balance(sch) ==
    LET balanced(s) ==
            IF s.raised = NoError /\ s.load_balancing_needed /\ s.host_threads # {}
            THEN emergency_load_balance_idle_cores(load_balance_threads_among_runqueues(s))
            ELSE s
    IN CPU_recalculate_cpu_requests_shares(balanced(CPU_kill_zombie_threads(sch)))

\* ----------------------------- threads of a replica and the driver's steps
\* ReplicaThread.__init__ and _set_values_from_endpoint_function: thread
\* number thread_id_in_node of the endpoint function of process p
ReplicaThread_init(sch, p, thread_id_in_node) ==
    LET process == sch.processes[p]
        ms == process.microservice
        t == Len(sch.threads) + 1
        share == IF ms.cpu_requests # -1
                 THEN IF ms.cpu_requests \div process.threads_count < max_cpu_requests
                      THEN ms.cpu_requests \div process.threads_count
                      ELSE max_cpu_requests
                 ELSE max_cpu_requests \div process.threads_count
        limits == IF ms.cpu_limits # -1 THEN ms.cpu_limits \div process.threads_count
                  ELSE -1
        set_values_from_endpoint_function(s) ==
            IF s.raised # NoError THEN s
            ELSE IF limits > 1000
            THEN Throw(s, "AttributeError: 'NoneType' object has no attribute 'cpu'")
            ELSE [s EXCEPT
                    !.threads[t].cpu_limits = limits,
                    !.threads[t].instructions = process.threads_instructions[thread_id_in_node],
                    !.processes[p].active_threads_count = @ + 1]
    IN IF sch.raised # NoError THEN sch
       ELSE set_values_from_endpoint_function(
                ReplicaThread_cpu_requests_share(
                    [sch EXCEPT !.threads = Append(@,
                        [process |-> p, core |-> NoCore, instructions |-> 0,
                         average_load |-> process.threads_avg_cpu_usages[thread_id_in_node],
                         load |-> 0, cpu_requests_share |-> 0, cpu_limits |-> 0,
                         on_rq |-> TRUE, vruntime |-> 0])],
                    t, share))

RECURSIVE threads_from(_, _, _)
threads_from(sch, p, thread_id_in_node) ==
    IF thread_id_in_node > sch.processes[p].threads_count THEN sch
    ELSE threads_from(ReplicaThread_init(sch, p, thread_id_in_node), p, thread_id_in_node + 1)

RECURSIVE enqueue_tasks_from(_, _, _)
\* RunQueue.enqueue_tasks on the threads from first on, without its load_balance
enqueue_tasks_from(sch, c, first) ==
    IF first > Len(sch.threads) \/ sch.raised # NoError THEN sch
    ELSE enqueue_tasks_from(enqueue_task(sch, c, first), c, first + 1)

\* MicroserviceReplica.generate_threads
MicroserviceReplica_generate_threads(sch, p, balance) ==
    LET balanced(s) == IF balance THEN CPU_load_balance(s) ELSE s
    IN balanced(enqueue_tasks_from(threads_from(sch, p, 1), 0, Len(sch.threads) + 1))

\* ReplicaThread.exec (cache penalty 0): duration ticks at the thread's share
ReplicaThread_exec(sch, t, duration) ==
    LET thread == sch.threads[t]
        millicores == IF thread.cpu_requests_share > max_cpu_requests /\ thread.cpu_limits # -1
                      THEN max_cpu_requests ELSE thread.cpu_requests_share
        instructions_to_consume == duration * millicores
        s1 == [sch EXCEPT
                 !.threads[t].instructions = @ - instructions_to_consume,
                 !.zombie_threads = IF thread.instructions - instructions_to_consume <= 0
                                    THEN @ \cup {t} ELSE @]
    IN IF sch.raised # NoError THEN sch
       ELSE IF ~(thread.on_rq /\ thread.instructions > 0 /\ thread.core # NoCore)
       THEN Throw(sch, "You can't execute a zombie thread and/or a thread without any instructions left!")
       ELSE IF millicores <= 0 THEN Throw(sch, "ValueError: math domain error")
       ELSE ReplicaThread_vruntime(s1, t, thread.vruntime + duration * millicores)

RECURSIVE exec_each(_, _, _)
exec_each(sch, todo, duration) ==
    IF todo = {} \/ sch.raised # NoError THEN sch
    ELSE LET t == first_of(sch, todo)
         IN exec_each(ReplicaThread_exec(sch, t, duration), todo \ {t}, duration)

\* Cluster.run_active_threads
Cluster_run_active_threads(sch, duration) == exec_each(sch, sch.active_threads, duration)

\* Cluster.load_balance_threads_in_all_hosts
Cluster_load_balance_threads_in_all_hosts(sch) ==
    IF sch.host_threads # {} THEN CPU_load_balance(sch) ELSE sch

\* ReplicaThread.get_exec_time_on_rq of the thread that ends soonest
soonest_end(sch) ==
    Min({CeilDiv(sch.threads[t].instructions, sch.threads[t].cpu_requests_share) :
            t \in sch.active_threads})

\* ------------------------------------------------------ scheduler scenarios
MaxThreads == 3

CoreCounts == {2, 3, 4}

Processes == {"P", "Q"}

\* the endpoint function of each process: P makes one thread that uses the
\* whole of its share, Q two threads of which the second uses half
EndpointFunctions ==
    [p \in Processes |->
        IF p = "P"
        THEN [threads_count |-> 1, threads_avg_cpu_usages |-> <<2>>,
              threads_instructions |-> <<1000>>]
        ELSE [threads_count |-> 2, threads_avg_cpu_usages |-> <<2, 1>>,
              threads_instructions |-> <<1000, 2000>>]]

\* (cpu_requests, cpu_limits) that Microservice and ResourceAllocationScenario
\* accept: -1 or positive, and no requests above the limits
AcceptedAllocations ==
    { [cpu_requests |-> 1000, cpu_limits |-> 1000, memory_requests |-> 0, blkio_capacity |-> 0],
      [cpu_requests |-> 500, cpu_limits |-> 1000, memory_requests |-> 0, blkio_capacity |-> 0],
      [cpu_requests |-> 500, cpu_limits |-> -1, memory_requests |-> 0, blkio_capacity |-> 0],
      [cpu_requests |-> -1, cpu_limits |-> 500, memory_requests |-> 0, blkio_capacity |-> 0],
      best_effort }

RECURSIVE place_each(_, _)
\* LeastFit.place on a cluster of one host: the host after the replicas are
\* placed, or None when one of them does not fit
place_each(host, todo) ==
    IF todo = <<>> THEN host
    ELSE LET o == place_replica(host, Head(todo)[2], Head(todo)[1])
         IN IF ~is_replica_placeable_on_host_from_resource_perspective(host, Head(todo)[2])
               \/ o.raised # NoError
            THEN None
            ELSE place_each(o.host, Tail(todo))

\* CPU.__init__ on a host of the given number of cores, with the processes of
\* the replicas placed on the host
SchedulerState(cores, allocations, hash_order) ==
    [cores |-> cores,
     hash_order |-> hash_order,
     threads |-> <<>>,
     runqueue |-> [c \in 0..(cores - 1) |-> RunQueue],
     idle_core_ids |-> 0..(cores - 1),
     idle_pair_ids |-> {pair_id(c) : c \in 0..(cores - 1)},
     idle_core_pair_ids |-> [pair \in {pair_id(c) : c \in 0..(cores - 1)} |->
                                {c \in 0..(cores - 1) : pair_id(c) = pair}],
     pairs_load |-> [pair \in {pair_id(c) : c \in 0..(cores - 1)} |-> 0],
     threads_sorted |-> {},
     pairs_sorted |-> {},
     processes |-> [p \in Processes |->
                      [microservice |-> allocations[p],
                       threads_count |-> EndpointFunctions[p].threads_count,
                       threads_avg_cpu_usages |-> EndpointFunctions[p].threads_avg_cpu_usages,
                       threads_instructions |-> EndpointFunctions[p].threads_instructions,
                       active_threads_count |-> 0]],
     active_threads |-> {},
     zombie_threads |-> {},
     host_threads |-> {},
     load_balancing_needed |-> FALSE,
     raised |-> NoError]

\* a host whose replicas are placed and whose run queues are empty
SchedulerInit ==
    /\ scm = ServiceChainManager(CHOOSE c \in ServiceChains : Len(c.nodes) = 1)
    /\ tp = [duration |-> 0, arrival_interval_ns |-> 2, start_at |-> 1, parallel_user |-> 1]
    /\ total_requests_count = 0
    /\ time = 0
    /\ previous_event = "None"
    /\ next_event = "REQUEST"
    /\ prediction = "None"
    /\ duration_of_next_event = 0
    /\ next_batch_arrival_time = 0
    /\ merged_arrival_table = {}
    /\ completed_requests = 0
    /\ requests = <<>>
    /\ requests_ready_for_thread_generation = <<>>
    /\ active_threads = {}
    /\ active_transmissions = {}
    /\ next_trans_completion_times = <<>>
    /\ load_balancing_needed = [h \in Hosts |-> FALSE]
    /\ err = NoError
    /\ hosts_dict = [h \in Hosts |-> Host(PlacementHostPrototypes[h])]
    /\ host_of = [r \in PlacedReplicas |-> NoHost]
    /\ microservice_of = [r \in PlacedReplicas |-> best_effort]
    /\ raised = NoError
    /\ direct_calls = 0
    /\ affinity_rules = [r \in PlacedReplicas |-> no_rules]
    /\ last_call = None
    /\ \E cores \in CoreCounts : \E allocations \in [Processes -> AcceptedAllocations] :
       \E hash_order \in {"ascending", "descending"} :
          /\ place_each(Host([cpu_core_count |-> cores, memory_capacity |-> 2,
                              storage_capacity |-> 1]),
                        <<<<"P", allocations["P"]>>, <<"Q", allocations["Q"]>>>>) # None
          /\ sched = SchedulerState(cores, allocations, hash_order)
    /\ network = None

non_scheduler_vars ==
    <<scm, tp, total_requests_count, driver_vars, cluster_vars, host_of, placement_vars,
      network>>

\* LoadGenerator._generate_threads for a request that reached a replica of the
\* host; balance is False when the batch goes on with another request
LoadGenerator_generate_threads ==
    /\ sched.raised = NoError
    /\ \E p \in Processes : \E balance \in BOOLEAN :
          /\ Len(sched.threads) + sched.processes[p].threads_count <= MaxThreads
          /\ sched' = MicroserviceReplica_generate_threads(sched, p, balance)
    /\ UNCHANGED non_scheduler_vars

\* LoadGenerator._run_threads_on_hosts: run_active_threads for the time to the
\* next event, which is at most the time the thread that ends soonest needs,
\* then load_balance_threads_in_all_hosts
LoadGenerator_run_threads_on_hosts ==
    /\ sched.raised = NoError
    /\ sched.active_threads # {}
    /\ \E duration \in
            IF \E t \in sched.active_threads : sched.threads[t].cpu_requests_share <= 0
            THEN {1} ELSE {1, soonest_end(sched)} :
          sched' = Cluster_load_balance_threads_in_all_hosts(
                       Cluster_run_active_threads(sched, duration))
    /\ UNCHANGED non_scheduler_vars

SchedulerNext ==
    \/ LoadGenerator_generate_threads
    \/ LoadGenerator_run_threads_on_hosts

SchedulerSpec == SchedulerInit /\ [][SchedulerNext]_vars

\* ---------------------------------------------------------------- claims
thread_key(t) == <<t.req, t.sc, t.node, t.idx>>

transmission_key(x) == <<x.req, x.sc>>

\* the step leaves thread t as exec(delta) leaves it: reaped when no
\* instructions remain, otherwise still queued with the remainder
AppliedToThread(t, delta) ==
    LET worked == exec(t, delta)
    IN IF worked.instructions <= 0
       THEN \A u \in active_threads' : thread_key(u) # thread_key(t)
       ELSE \E u \in active_threads' :
                thread_key(u) = thread_key(t) /\ u.instructions = worked.instructions

\* the step leaves transmission x as transmit(delta) leaves it
AppliedToTransmission(x, delta) ==
    LET sent == transmit(x, delta).trans
    IN IF calculate_transmission_time(sent) <= 0
       THEN \A y \in active_transmissions' : transmission_key(y) # transmission_key(x)
       ELSE \E y \in active_transmissions' :
                transmission_key(y) = transmission_key(x)
                /\ y.total_latency = sent.total_latency

\* C1: whenever a driver step moves the clock forward, every thread on a run
\* queue is executed and every active transmission is transmitted for exactly
\* the amount the clock moved.
C1_ClockAdvanceAppliedInFull ==
    [][time' > time =>
          /\ \A t \in active_threads : AppliedToThread(t, time' - time)
          /\ \A x \in active_transmissions : AppliedToTransmission(x, time' - time)]_vars

\* no work is left and the completed count differs from the expected count:
\* the count can no longer change, so DONE is out of reach
NothingLeftToDo ==
    /\ next_event # "DONE"
    /\ merged_arrival_table = {}
    /\ requests_ready_for_thread_generation = <<>>
    /\ active_threads = {}
    /\ active_transmissions = {}
    /\ completed_requests # total_requests_count

\* C2: execute_traffic terminates: the event loop is never ended by an
\* exception and never runs out of work before it can reach DONE.
C2_ReachesDone == err = NoError /\ ~NothingLeftToDo

C4_ClockMonotonic == [][time' >= time]_vars

\* the clock has been moved by a batch arrival after threads had run
C4_Witness ==
    /\ previous_event = "REQUEST"
    /\ time > 0
    /\ \E r \in DOMAIN requests : requests[r].status = "COMPLETED"

AllConcluded(r) ==
    \A sc \in DOMAIN requests[r].subchains_status :
        requests[r].subchains_status[sc] = "CONCLUDED"

\* C5: a request is COMPLETED exactly when all of its subchains are
\* CONCLUDED, and a COMPLETED request stays COMPLETED.
C5_CompletedIffAllConcluded ==
    /\ [](\A r \in DOMAIN requests :
             requests[r].status = "COMPLETED" <=> AllConcluded(r))
    /\ [][\A r \in DOMAIN requests :
             requests[r].status = "COMPLETED" => requests'[r].status = "COMPLETED"]_vars

\* one request is COMPLETED while another has concluded only some subchains
C5_Witness ==
    /\ \E r \in DOMAIN requests : requests[r].status = "COMPLETED" /\ AllConcluded(r)
    /\ \E r \in DOMAIN requests :
          /\ requests[r].status # "COMPLETED"
          /\ \E sc \in DOMAIN requests[r].subchains_status :
                requests[r].subchains_status[sc] = "CONCLUDED"

ForkPoints == {n \in DOMAIN scm.node_subchain_id_map :
                  Len(successors(scm.alternative_graph, n)) > 1}

BranchSubchains(n) ==
    {scm.node_subchain_id_map[successors(scm.alternative_graph, n)[i]] :
        i \in 1..Len(successors(scm.alternative_graph, n))}

HasLiveWork(r) ==
    \/ \E t \in active_threads : t.req = r
    \/ \E x \in active_transmissions : x.req = r
    \/ \E i \in DOMAIN requests_ready_for_thread_generation :
          requests_ready_for_thread_generation[i][2] = r

\* C6: a fork spawns one subchain per branch, distinct from each other and
\* from the forking subchain; once the fork has been taken every branch
\* subchain has started; the request is COMPLETED only when every branch
\* subchain is CONCLUDED, and never while it has a live thread or an
\* in-flight transmission.
C6_ForkJoin ==
    /\ \A n \in ForkPoints :
          /\ Cardinality(BranchSubchains(n)) = Len(successors(scm.alternative_graph, n))
          /\ scm.node_subchain_id_map[n] \notin BranchSubchains(n)
    /\ \A r \in DOMAIN requests :
          /\ \A n \in ForkPoints :
                requests[r].subchains_status[scm.node_subchain_id_map[n]] = "CONCLUDED"
                => \A sc \in BranchSubchains(n) :
                      requests[r].subchains_status[sc] # "CREATED"
          /\ requests[r].status = "COMPLETED" =>
                /\ \A n \in ForkPoints : \A sc \in BranchSubchains(n) :
                      requests[r].subchains_status[sc] = "CONCLUDED"
                /\ ~HasLiveWork(r)

\* in a fork-join chain one branch has finalized while the other still has
\* live work, and the request is still in progress
C6_Witness ==
    /\ ForkPoints # {}
    /\ \E r \in DOMAIN requests : \E n \in ForkPoints :
          \E done, busy \in BranchSubchains(n) :
             /\ requests[r].subchains_status[done] = "CONCLUDED"
             /\ requests[r].subchains_status[busy] # "CONCLUDED"
             /\ requests[r].status # "COMPLETED"
             /\ HasLiveWork(r)

\* C7: the heap holds iterations x parallel_user requests, parallel_user of
\* them arriving at start_at + i * arrival_interval_ns for each iteration i,
\* and none at all when arrival_interval_ns exceeds the duration.
C7_EnumeratedRequests ==
    LET iterations == recalc_iterations_count(tp)
        arriving_at(i) == {r \in DOMAIN requests :
                             requests[r].arrival_time =
                                 tp.start_at * TicksPerSecond + i * tp.arrival_interval_ns}
    IN /\ Cardinality(DOMAIN requests) = iterations * tp.parallel_user
       /\ \A i \in 0..(iterations - 1) : Cardinality(arriving_at(i)) = tp.parallel_user
       /\ (tp.arrival_interval_ns > tp.duration * TicksPerSecond
              => DOMAIN requests = {})

InRange(res) == 0 <= res.reserved /\ res.reserved <= res.capacity

\* C8: after any sequence of placements, evictions and reserve / release
\* calls, every core, RAM set and storage of every host has
\* 0 <= reserved <= capacity.
C8_ReservedWithinCapacity ==
    \A h \in Hosts :
        /\ \A i \in DOMAIN hosts_dict[h].cpu : InRange(hosts_dict[h].cpu[i])
        /\ InRange(hosts_dict[h].ram)
        /\ InRange(hosts_dict[h].blkio)

RECURSIVE SumOfRequests(_)
SumOfRequests(S) ==
    IF S = {} THEN 0
    ELSE LET r == CHOOSE x \in S : TRUE
         IN (IF microservice_of[r].cpu_requests = -1 THEN 0
             ELSE microservice_of[r].cpu_requests) + SumOfRequests(S \ {r})

\* C9: after any sequence of successful placements, the cpu_requests of the
\* replicas placed on a host (those that are not -1) sum to at most the CPU
\* capacity of the host.
C9_RequestsWithinCapacity ==
    direct_calls = 0 =>
        \A h \in Hosts :
            SumOfRequests(hosts_dict[h].replicas) <= CPU_capacity(hosts_dict[h].cpu)

RECURSIVE TotalCapacity(_)
TotalCapacity(H) ==
    IF H = {} THEN 0
    ELSE LET h == CHOOSE x \in H : TRUE
         IN CPU_capacity(hosts_dict[h].cpu) + TotalCapacity(H \ {h})

\* C10: placing, on empty hosts, a set of replicas whose cpu_requests sum to
\* more than the CPU shares of all hosts raises ResourceNotAvailableError.
C10_OvercommitRaises ==
    [][(/\ LeastFit_place
        /\ \A r \in PlacedReplicas : host_of[r] = NoHost
        /\ hosts_dict = [h \in Hosts |-> Host(PlacementHostPrototypes[h])]
        /\ SumOfRequests(PlacedReplicas) > TotalCapacity(Hosts))
       => raised' = ResourceNotAvailableError]_vars

\* replica r is on exactly one host: its host is a host of the inventory
\* whose replica set holds r, and no other host's replica set holds r
PlacedOnExactlyOneHost(hd, ho, r) ==
    /\ ho[r] \in Hosts
    /\ \A h \in Hosts : r \in hd[h].replicas <=> h = ho[r]

\* C11: whenever a placement returns without raising, every replica of the
\* input set is on exactly one host of the inventory (its host is that host
\* and that host's replica set contains it); a placement that leaves some
\* replica without a host raises ResourceNotAvailableError.  Stated for
\* clusters whose resources were only ever touched by placements and host
\* assignments.
C11_PlacedOrRaised ==
    [][(LeastFit_place /\ direct_calls = 0) =>
          /\ raised' = NoError =>
                \A r \in PlacedReplicas : PlacedOnExactlyOneHost(hosts_dict', host_of', r)
          /\ (\E r \in PlacedReplicas : host_of'[r] = NoHost) =>
                raised' = ResourceNotAvailableError]_vars

\* the hosts that own a replica of one of the microservices in S
HostsOwning(S) == {host_of[ms] : ms \in S} \ {NoHost}

\* the candidate hosts of a microservice: every kind of affinity rule that
\* is present narrows the hosts, every anti-affinity rule removes hosts
CandidateHosts(r) ==
    LET rules == affinity_rules[r]
        by_ms == IF rules.ms_affinity_rules = {} THEN Hosts
                 ELSE HostsOwning(rules.ms_affinity_rules)
        by_host == IF rules.host_affinity_rules = {} THEN Hosts
                   ELSE rules.host_affinity_rules
    IN (by_ms \cap by_host)
       \ (HostsOwning(rules.ms_antiaffinity_rules) \cup rules.host_antiaffinity_rules)

\* C12: least-fit goes, for each replica, through exactly the hosts that
\* its affinity rules allow (hosts owning an affinity microservice,
\* intersected with the explicit affinity hosts) minus the anti-affinity
\* hosts, all hosts when there is no rule; a placement never puts a replica
\* on a host outside that set and never fails for a reason other than
\* ResourceNotAvailableError.
C12_AffinityCandidates ==
    [][LeastFit_place =>
          /\ raised' \in {NoError, ResourceNotAvailableError}
          /\ \A r \in PlacedReplicas :
                (host_of'[r] # host_of[r] /\ host_of'[r] # NoHost)
                    => host_of'[r] \in CandidateHosts(r)']_vars

\* C13: a reserve of more than the available amount of a resource fails
\* with ResourceNotAvailableError and leaves the reserved amount of the
\* resource as it was.
C13_ReserveBeyondAvailable ==
    [][\A h \in Hosts : \A res \in ResourcesOf(h) : \A amount \in DirectAmounts :
          (/\ Resource_reserve
           /\ last_call' = <<"reserve", h, res, amount>>
           /\ amount > get_available(ResourceAt(h, res)))
          => /\ raised' = ResourceNotAvailableError
             /\ ResourceAt(h, res)'.reserved = ResourceAt(h, res).reserved]_vars

\* a reserve on a fully reserved resource has just been refused
C13_Witness ==
    /\ last_call # None
    /\ last_call[1] = "reserve"
    /\ last_call[4] > get_available(ResourceAt(last_call[2], last_call[3]))
    /\ ResourceAt(last_call[2], last_call[3]).reserved > 0
    /\ raised = ResourceNotAvailableError

\* C14: a release of more than the reserved amount of a resource always
\* ends with an error, on throttleable and non-throttleable resources
\* alike, and never leaves the resource with a negative reserved amount.
C14_ReleaseBeyondReserved ==
    [][\A h \in Hosts : \A res \in ResourcesOf(h) : \A amount \in DirectAmounts :
          (/\ Resource_release
           /\ last_call' = <<"release", h, res, amount>>
           /\ ResourceAt(h, res).reserved >= 0
           /\ amount > ResourceAt(h, res).reserved)
          => /\ raised' # NoError
             /\ ResourceAt(h, res)'.reserved >= 0]_vars

\* the cores of the host and the threads made so far
Cores == 0..(sched.cores - 1)

Threads == 1..Len(sched.threads)

\* C15: between the driver's steps the active_threads of every core are the
\* threads whose core it is, and every live thread is on the run queue of
\* exactly one core
C15_ActiveThreadsOfCore ==
    /\ \A c \in Cores :
          sched.runqueue[c].active_threads = {t \in Threads : sched.threads[t].core = c}
    /\ \A t \in sched.active_threads :
          Cardinality({c \in Cores : t \in sched.runqueue[c].active_threads}) = 1

\* a thread was reaped while two others are queued on different cores
C15_Witness ==
    /\ sched.raised = NoError
    /\ \E t \in Threads : ~sched.threads[t].on_rq /\ sched.threads[t].core = NoCore
    /\ \E t1, t2 \in sched.active_threads :
          /\ sched.threads[t1].core # sched.threads[t2].core
          /\ t1 \in sched.runqueue[sched.threads[t1].core].active_threads
          /\ t2 \in sched.runqueue[sched.threads[t2].core].active_threads

\* the four QoS partitions of a run queue
QoSPartitions ==
    {"best_effort_active_threads", "guaranteed_active_threads",
     "burstable_unlimited_active_threads", "burstable_limited_active_threads"}

\* C16: every thread on a run queue is in exactly one of the partitions
\* best-effort, guaranteed, burstable-unlimited and burstable-limited of that
\* run queue, whatever accepted (cpu_requests, cpu_limits) its microservice has
C16_ExactlyOnePartition ==
    \A c \in Cores : \A t \in sched.runqueue[c].active_threads :
        Cardinality({s \in QoSPartitions : t \in sched.runqueue[c][s].members}) = 1

RECURSIVE SumOfWeightedLoads(_)
\* the sum of average_load * load over the threads of S, in the units of a
\* run queue's load
SumOfWeightedLoads(S) ==
    IF S = {} THEN 0
    ELSE LET t == CHOOSE x \in S : TRUE
         IN (sched.threads[t].average_load * sched.threads[t].load) \div 2
            + SumOfWeightedLoads(S \ {t})

\* C17: between the driver's steps the load of every run queue is the sum of
\* average_load * load over the threads enqueued on it, also after the shares
\* of the threads were recomputed
C17_LoadIsSumOfThreadLoads ==
    sched.raised = NoError =>
        \A c \in Cores :
            sched.runqueue[c].load = SumOfWeightedLoads(sched.runqueue[c].active_threads)

RECURSIVE SumOfShares(_)
\* the sum of the shares of the threads of S
SumOfShares(S) ==
    IF S = {} THEN 0
    ELSE LET t == CHOOSE x \in S : TRUE
         IN sched.threads[t].cpu_requests_share + SumOfShares(S \ {t})

\* C18: on every core the shares of the guaranteed threads of its run queue
\* add up to at most the 1000 millicores of a core
C18_GuaranteedSharesWithinCore ==
    sched.raised = NoError =>
        \A c \in Cores :
            SumOfShares(sched.runqueue[c].guaranteed_active_threads.members)
                <= max_cpu_requests

\* the threads enqueued on the run queues of the host
EnqueuedThreads == UNION {sched.runqueue[c].active_threads : c \in Cores}

\* C19: between the driver's steps the indices of the CPU agree with the run
\* queues: idle_core_ids holds the cores without a thread, idle_pair_ids the
\* pairs whose cores are all without a thread, pairs_load of a pair is the sum
\* of the loads of the run queues of its cores, and threads_sorted holds the
\* enqueued threads and no other, each under its load
C19_IndicesAgreeWithRunQueues ==
    sched.raised = NoError =>
        /\ sched.idle_core_ids = {c \in Cores : sched.runqueue[c].active_threads = {}}
        /\ sched.idle_pair_ids =
               {pair \in Pairs(sched) :
                   \A c \in Cores : pair_id(c) = pair => sched.runqueue[c].active_threads = {}}
        /\ \A pair \in Pairs(sched) :
               sched.pairs_load[pair] =
                   sched.runqueue[2 * pair].load
                   + (IF 2 * pair + 1 \in Cores THEN sched.runqueue[2 * pair + 1].load ELSE 0)
        /\ {<<e[1], e[3]>> : e \in sched.threads_sorted} =
               {<<0 - sched.threads[t].load, t>> : t \in EnqueuedThreads}

\* on four cores a thread was reaped, another was moved to a core of the
\* second pair, and a thread's share was changed while it was enqueued
C19_Witness ==
    /\ sched.raised = NoError
    /\ sched.cores = 4
    /\ \E t \in Threads : ~sched.threads[t].on_rq
    /\ \E t \in EnqueuedThreads : pair_id(sched.threads[t].core) = 1
    /\ \E t \in EnqueuedThreads : sched.threads[t].core = 0
    /\ \E t \in EnqueuedThreads :
          sched.threads[t].cpu_requests_share
              # sched.processes[sched.threads[t].process].microservice.cpu_requests
                    \div sched.processes[sched.threads[t].process].threads_count
    /\ sched.idle_core_ids # {}
    /\ sched.idle_pair_ids = {}

\* the share of every thread in the scheduler state sch
SharesIn(sch) == [t \in 1..Len(sch.threads) |-> sch.threads[t].cpu_requests_share]

\* C20: a second recalculate_cpu_requests_shares called right after a first,
\* with no enqueue or dequeue between the two, ends without an exception and
\* leaves the share of every thread as the first call left it
C20_RecalculationIdempotent ==
    (sched.raised = NoError /\ CPU_recalculate_cpu_requests_shares(sched).raised = NoError) =>
        /\ CPU_recalculate_cpu_requests_shares(
               CPU_recalculate_cpu_requests_shares(sched)).raised = NoError
        /\ SharesIn(CPU_recalculate_cpu_requests_shares(
               CPU_recalculate_cpu_requests_shares(sched)))
           = SharesIn(CPU_recalculate_cpu_requests_shares(sched))

\* the first call changes a share, and gives an unlimited burstable thread
\* more than the request of its process allots to it
C20_Witness ==
    /\ sched.raised = NoError
    /\ CPU_recalculate_cpu_requests_shares(sched).raised = NoError
    /\ SharesIn(CPU_recalculate_cpu_requests_shares(sched)) # SharesIn(sched)
    /\ \E t \in EnqueuedThreads :
          /\ is_unlimited_burstable(sched.processes[sched.threads[t].process].microservice)
          /\ CPU_recalculate_cpu_requests_shares(sched).threads[t].cpu_requests_share
                 > Process_get_cpu_request_per_thread(sched, sched.threads[t].process)

\* a new thread of process p with number i in its replica, enqueued on core c
\* and dequeued at once
EnqueuedAndDequeued(p, i, c) ==
    dequeue_task_by_thread(
        enqueue_task(ReplicaThread_init(sched, p, i), c, Len(sched.threads) + 1),
        c, Len(sched.threads) + 1)

\* the process, thread number and core of every such round trip that ends
\* without an exception
RoundTrips ==
    {x \in Processes \X (1..MaxThreads) \X Cores :
        /\ x[2] <= sched.processes[x[1]].threads_count
        /\ EnqueuedAndDequeued(x[1], x[2], x[3]).raised = NoError}

\* C21: enqueueing a thread on a core and dequeueing it again leaves the load
\* of the core, the cached sums of CPU requests of its thread sets, and the
\* idle cores and idle pairs of the CPU as they were before the enqueue
C21_EnqueueDequeueRoundTrip ==
    sched.raised = NoError =>
        \A x \in RoundTrips :
            /\ EnqueuedAndDequeued(x[1], x[2], x[3]).runqueue[x[3]].load
                   = sched.runqueue[x[3]].load
            /\ \A s \in QoSPartitions \cup {"burstable_active_threads"} :
                  EnqueuedAndDequeued(x[1], x[2], x[3]).runqueue[x[3]][s].sum_cpu_requests
                      = sched.runqueue[x[3]][s].sum_cpu_requests
            /\ EnqueuedAndDequeued(x[1], x[2], x[3]).idle_core_ids = sched.idle_core_ids
            /\ EnqueuedAndDequeued(x[1], x[2], x[3]).idle_pair_ids = sched.idle_pair_ids

C23_NoStaleCompletionTime ==
    [][next_event = "EXEC TIME EST" =>
          peekitem(next_trans_completion_times') >= time']_vars

\* EXEC TIME EST has run after a batch arrived while a transmission between
\* two hosts, of a request that arrived earlier, had not been transmitted yet
C23_Witness ==
    /\ err = NoError
    /\ previous_event = "EXEC TIME EST"
    /\ \E x \in active_transmissions :
          /\ x.src # x.dst
          /\ x.total_latency = Transmission(x.req, x.sc, x.src, x.dst).total_latency
          /\ x.transmission_exact_time = time + x.total_latency
          /\ x.transmission_exact_time = peekitem(next_trans_completion_times)
          /\ \E r \in DOMAIN requests :
                /\ requests[r].arrival_time = time
                /\ requests[r].status # "CREATED"
                /\ requests[x.req].arrival_time < time

\* the scheduler state with its sets of threads iterated in the order o
IteratedIn(o) == [sched EXCEPT !.hash_order = o]

\* what the latency of a request is computed from: the exception raised, and
\* the instructions left, the share and the core of every thread
Outcome(sch) ==
    [raised |-> sch.raised,
     threads |-> [t \in 1..Len(sch.threads) |->
                     <<sch.threads[t].instructions, sch.threads[t].cpu_requests_share,
                       sch.threads[t].core>>]]

\* C24: the outcome of a step that runs the threads for one tick and balances
\* the host does not depend on the order in which the sets of threads are
\* iterated
C24_IterationOrderIrrelevant ==
    (sched.raised = NoError /\ sched.active_threads # {}) =>
        Outcome(Cluster_load_balance_threads_in_all_hosts(
                    Cluster_run_active_threads(IteratedIn("ascending"), 1)))
        = Outcome(Cluster_load_balance_threads_in_all_hosts(
                      Cluster_run_active_threads(IteratedIn("descending"), 1)))

\* C25: the event of the driver changes only from REQUEST to THREAD GEN, from
\* THREAD GEN to EXEC TIME EST, from EXEC TIME EST to RUN THREADS, and from
\* RUN THREADS to REQUEST, THREAD GEN or DONE
C25_OnlyListedTransitions ==
    [][next_event' # next_event =>
          <<next_event, next_event'>> \in
              {<<"REQUEST", "THREAD GEN">>, <<"THREAD GEN", "EXEC TIME EST">>,
               <<"EXEC TIME EST", "RUN THREADS">>, <<"RUN THREADS", "REQUEST">>,
               <<"RUN THREADS", "THREAD GEN">>, <<"RUN THREADS", "DONE">>}]_vars

\* C25, amended: besides those six, the event changes from REQUEST to
\* EXEC TIME EST when the arrival table is empty, and from EXEC TIME EST to
\* THREAD GEN when the duration of the next event is infinite and the previous
\* event is not THREAD GEN; it changes in no other way
C25_TransitionsOfTheDriver ==
    [][next_event' # next_event =>
          \/ <<next_event, next_event'>> \in
                 {<<"REQUEST", "THREAD GEN">>, <<"THREAD GEN", "EXEC TIME EST">>,
                  <<"EXEC TIME EST", "RUN THREADS">>, <<"RUN THREADS", "REQUEST">>,
                  <<"RUN THREADS", "THREAD GEN">>, <<"RUN THREADS", "DONE">>}
          \/ /\ <<next_event, next_event'>> = <<"REQUEST", "EXEC TIME EST">>
             /\ merged_arrival_table = {}
          \/ /\ <<next_event, next_event'>> = <<"EXEC TIME EST", "THREAD GEN">>
             /\ duration_of_next_event' = Inf
             /\ previous_event # "THREAD GEN"]_vars

\* a REQUEST step has found the arrival table empty after threads had run,
\* in a run whose expected count is the number of requests created
C25_Witness ==
    /\ err = NoError
    /\ next_event = "EXEC TIME EST"
    /\ previous_event = "RUN THREADS"
    /\ merged_arrival_table = {}
    /\ total_requests_count = Cardinality(DOMAIN requests)

\* an EXEC TIME EST step that computes an infinite duration of the next event
ComputesInfiniteDuration ==
    /\ next_event = "EXEC TIME EST"
    /\ duration_of_next_event' = Inf
    /\ err' \notin {"What the hell!? Did we miss a request", "ValueError: math domain error"}

EarliestOfTheThree(threads, m, now) ==
    Min({peekitem(m), next_batch_arrival_time}
        \cup {get_exec_time_on_rq(t) + now : t \in threads})

\* C27: the duration that EXEC TIME EST computes is the time from now to the
\* least of the earliest transmission completion, the next batch arrival and
\* the earliest thread finish, it is never negative, and RUN THREADS does not
\* move the clock past any of the three
C27_DurationToTheEarliestEvent ==
    /\ [][(next_event = "EXEC TIME EST" /\ err' = NoError) =>
            /\ duration_of_next_event' >= 0
            /\ duration_of_next_event' =
                   IF EarliestOfTheThree(active_threads', next_trans_completion_times',
                                         time) = Inf
                   THEN Inf
                   ELSE EarliestOfTheThree(active_threads', next_trans_completion_times',
                                           time) - time]_vars
    /\ [][next_event = "RUN THREADS" =>
            time' <= EarliestOfTheThree(active_threads, next_trans_completion_times,
                                        time)]_vars

\* RUN THREADS has moved the clock to the finish of a thread, earlier than the
\* completion of a transmission under way and than the next batch
C27_Witness ==
    /\ err = NoError
    /\ previous_event = "RUN THREADS"
    /\ duration_of_next_event > 0
    /\ time < next_batch_arrival_time
    /\ next_batch_arrival_time < Inf
    /\ active_transmissions # {}
    /\ time < peekitem(next_trans_completion_times)

\* the hosts on which the step has put new threads
HostsGivenThreads ==
    {h \in Hosts : \E t \in active_threads' :
        t.host = h /\ \A u \in active_threads : thread_key(u) # thread_key(t)}

\* C28: a THREAD GEN step makes the threads of every ready pair of subchain
\* and request on the host of the replica that serves it, and leaves no host
\* that it gave threads flagged as needing load balancing
C28_ThreadGenBalancesEveryHost ==
    [][(next_event = "THREAD GEN" /\ err' = NoError) =>
          /\ \A i \in 1..Len(requests_ready_for_thread_generation) :
                \E t \in active_threads' :
                    /\ t.req = requests_ready_for_thread_generation[i][2]
                    /\ t.sc = requests_ready_for_thread_generation[i][1]
                    /\ t.host = host_of[t.node[2]]
                    /\ \A u \in active_threads : thread_key(u) # thread_key(t)
          /\ \A h \in HostsGivenThreads : ~load_balancing_needed'[h]]_vars

\* the scheduler state after CPU.recalculate_cpu_requests_shares
Recalculated == CPU_recalculate_cpu_requests_shares(sched)

\* the request per thread of the process of thread t
RequestOf(t) == Process_get_cpu_request_per_thread(sched, sched.threads[t].process)

RECURSIVE SumOfRequestsOf(_)
SumOfRequestsOf(S) ==
    IF S = {} THEN 0
    ELSE LET t == CHOOSE x \in S : TRUE
         IN RequestOf(t) + SumOfRequestsOf(S \ {t})

\* the millicores of core c left by the requests of its guaranteed and of its
\* burstable threads
RemainingOn(c) ==
    max_cpu_requests
    - SumOfRequestsOf(sched.runqueue[c].guaranteed_active_threads.members)
    - SumOfRequestsOf(sched.runqueue[c].burstable_active_threads.members)

\* C29: the recalculation gives every unlimited burstable thread of a core,
\* on top of its request, the part of the remaining millicores of the core
\* that its request is of the burstable requests of the core, so that two
\* unlimited burstable threads of a core with equal requests get equal shares
C29_RemainingSharedInProportion ==
    (sched.raised = NoError /\ Recalculated.raised = NoError) =>
        \A c \in Cores :
            \A t \in sched.runqueue[c].burstable_unlimited_active_threads.members :
                /\ Recalculated.threads[t].cpu_requests_share =
                       Min({max_cpu_requests,
                            RequestOf(t)
                            + (RemainingOn(c) * RequestOf(t))
                                  \div SumOfRequestsOf(
                                           sched.runqueue[c].burstable_active_threads.members)})
                /\ \A u \in sched.runqueue[c].burstable_unlimited_active_threads.members :
                      RequestOf(u) = RequestOf(t) =>
                          Recalculated.threads[u].cpu_requests_share
                              = Recalculated.threads[t].cpu_requests_share

\* the CPU request of the microservice of thread t divided by the number of
\* active threads of its process
PerThreadRequest(t) ==
    sched.processes[sched.threads[t].process].microservice.cpu_requests
        \div sched.processes[sched.threads[t].process].active_threads_count

\* C30: after the recalculation the share of every guaranteed thread and of
\* every limited burstable thread is the lesser of the request per thread of
\* its microservice and the millicores of a core
C30_ShareIsRequestPerThread ==
    (sched.raised = NoError /\ Recalculated.raised = NoError) =>
        \A c \in Cores :
            \A t \in sched.runqueue[c].guaranteed_active_threads.members
                        \cup sched.runqueue[c].burstable_limited_active_threads.members :
                Recalculated.threads[t].cpu_requests_share
                    = Min({PerThreadRequest(t), max_cpu_requests})

RECURSIVE SumOfSharesIn(_, _)
\* the sum of the shares that the threads of S hold in the scheduler state sch
SumOfSharesIn(sch, S) ==
    IF S = {} THEN 0
    ELSE LET t == CHOOSE x \in S : TRUE
         IN sch.threads[t].cpu_requests_share + SumOfSharesIn(sch, S \ {t})

\* C31: after the recalculation the shares of the threads of a core add up to
\* at most the 1000 millicores of the core
C31_SharesWithinCore ==
    (sched.raised = NoError /\ Recalculated.raised = NoError) =>
        \A c \in Cores :
            SumOfSharesIn(Recalculated, sched.runqueue[c].active_threads)
                <= max_cpu_requests

\* the other core of the pair of core c
Sibling(c) == get_the_other_core_in_pair(sched, c, FALSE)

\* the cores without a thread whose pair has another core
IdleCoresWithSibling ==
    {c \in Cores : sched.runqueue[c].active_threads = {} /\ Sibling(c) # NoCore}

\* the least load of a thread on the run queue of core c
LightestLoadOn(c) ==
    Min({sched.threads[t].load : t \in sched.runqueue[c].active_threads})

\* the sibling of core c has more than one thread, and without its lightest
\* thread its load is not less than the load of core c with that thread
MoveIsDue(c) ==
    /\ Cardinality(sched.runqueue[Sibling(c)].active_threads) > 1
    /\ sched.runqueue[Sibling(c)].load - LightestLoadOn(Sibling(c))
           >= sched.runqueue[c].load + LightestLoadOn(Sibling(c))

\* what load_balance_threads_among_runqueues does for core c in "core pairs"
BalancedInPair(c) ==
    IF get_idle_core_in_sd(sched, sched_domain_hierarchy[1], c) \notin {-1, c}
    THEN sched
    ELSE balance_in_pair(sched, c)

\* C32: in "core pairs" the balancer gives an idle core a thread of its
\* sibling exactly when the sibling has more than one thread and, after the
\* move of its lightest thread, a load not less than the new load of the idle
\* core; and it never leaves a core that had a thread without one
C32_PairBalancing ==
    sched.raised = NoError =>
        /\ \A c \in IdleCoresWithSibling :
              /\ BalancedInPair(c).raised = NoError
              /\ (BalancedInPair(c).runqueue[c].active_threads # {}) <=> MoveIsDue(c)
        /\ \A c \in Cores :
              (Sibling(c) # NoCore /\ sched.runqueue[Sibling(c)].active_threads # {}
               /\ BalancedInPair(c).raised = NoError) =>
                  BalancedInPair(c).runqueue[Sibling(c)].active_threads # {}

\* an idle core is given the lightest thread of its sibling
C32_Witness ==
    /\ sched.raised = NoError
    /\ \E c \in IdleCoresWithSibling :
          /\ MoveIsDue(c)
          /\ \E t \in sched.runqueue[Sibling(c)].active_threads :
                /\ sched.threads[t].load = LightestLoadOn(Sibling(c))
                /\ t \in BalancedInPair(c).runqueue[c].active_threads

IdleIn(s) == {c \in Cores : s.runqueue[c].active_threads = {}}

\* the threads of the cores that hold more than one runnable thread
StealableIn(s) ==
    UNION {s.runqueue[c].active_threads :
             c \in {d \in Cores : Cardinality(s.runqueue[d].active_threads) > 1}}

\* the host after a replica of process p has generated its threads and
\* CPU.load_balance has balanced the host
GeneratedAndBalanced(p) == MicroserviceReplica_generate_threads(sched, p, TRUE)

\* C33: after the threads of a request are generated and the host is
\* load-balanced (pair and node balancing, then the emergency theft), no core
\* is idle while another core of the CPU holds more than one runnable thread
C33_NoIdleCoreNextToCrowdedCore ==
    sched.raised = NoError =>
        \A p \in Processes :
            GeneratedAndBalanced(p).raised = NoError =>
                \/ IdleIn(GeneratedAndBalanced(p)) = {}
                \/ StealableIn(GeneratedAndBalanced(p)) = {}

\* the host after the threads generated for process p have run for one tick
\* and LoadGenerator._run_threads_on_hosts has balanced the host again
RunAndBalancedAfter(p) ==
    Cluster_load_balance_threads_in_all_hosts(
        Cluster_run_active_threads(GeneratedAndBalanced(p), 1))

\* C34: load-balancing a host always terminates, for every number of cores
\* (an odd count included) and every distribution of threads and loads: the
\* node-level loop of CPU.load_balance_threads_among_runqueues never reaches
\* a round that neither moves a thread nor stops
C34_LoadBalancingTerminates ==
    /\ sched.raised # "the loop does not end"
    /\ sched.raised = NoError =>
          \A p \in Processes :
              /\ GeneratedAndBalanced(p).raised # "the loop does not end"
              /\ GeneratedAndBalanced(p).raised = NoError =>
                    RunAndBalancedAfter(p).raised # "the loop does not end"

\* the threads of the host that have no instructions left
Dead(s) == {t \in 1..Len(s.threads) : s.threads[t].instructions <= 0}

\* the threads that a run queue, a partition or an index of the host holds
HeldBy(s) ==
    UNION {s.runqueue[c].active_threads
             \cup {s.runqueue[c].rq[i] : i \in 1..Len(s.runqueue[c].rq)}
             \cup {e[1] : e \in s.runqueue[c].thread_set_dict}
             \cup {e[3] : e \in s.runqueue[c].lightest_threads_in_rq}
             \cup s.runqueue[c].burstable_active_threads.members
             \cup UNION {s.runqueue[c][q].members : q \in QoSPartitions} : c \in Cores}
      \cup {e[3] : e \in s.threads_sorted}
      \cup s.host_threads
      \cup s.active_threads

\* the host after Cluster.run_active_threads has run its threads for one
\* tick, before the load-balance phase of the step
RunForOneTick == Cluster_run_active_threads(sched, 1)

\* C35: a thread whose instructions reach 0 or less is left on its run queue
\* by exec and put in the zombie set; after the load-balance phase of the step
\* the zombie set is empty and no thread without instructions is held by a
\* run queue, a QoS partition, the lightest-thread index, the thread-load
\* index, the host's thread set or the cluster's active-thread set
C35_ZombiesReapedAtLoadBalance ==
    sched.raised = NoError =>
        /\ sched.zombie_threads = {}
        /\ HeldBy(sched) \cap Dead(sched) = {}
        /\ RunForOneTick.raised = NoError =>
              /\ RunForOneTick.zombie_threads = Dead(RunForOneTick) \cap sched.active_threads
              /\ RunForOneTick.zombie_threads \subseteq RunForOneTick.active_threads
              /\ \A t \in RunForOneTick.zombie_threads :
                    /\ RunForOneTick.threads[t].on_rq
                    /\ t \in RunForOneTick.runqueue[sched.threads[t].core].active_threads

\* a thread has been reaped while another thread is still running
C35_Witness ==
    /\ sched.raised = NoError
    /\ \E t \in Dead(sched) : ~sched.threads[t].on_rq
    /\ sched.active_threads # {}
    /\ RunForOneTick.raised = NoError
    /\ RunForOneTick.zombie_threads # {}

Subchains == 0..(Len(scm.subchains) - 1)

LiveThreadsOf(r, sc) == {t \in active_threads : t.req = r /\ t.sc = sc}

\* the step reaps the last live thread of subchain sc of request r
LastThreadReaped(r, sc) ==
    /\ requests[r].current_active_threads[sc] > 0
    /\ requests'[r].current_active_threads[sc] = 0

\* what init_transmission leaves behind: the subchains of request r that the
\* step gives a transmission, and the subchains it concludes
NewTransmissions(r) ==
    {x.sc : x \in {y \in active_transmissions' :
                     /\ y.req = r
                     /\ \A z \in active_transmissions :
                           transmission_key(z) # transmission_key(y)}}

NewlyConcluded(r) ==
    {sc \in Subchains : /\ requests'[r].subchains_status[sc] = "CONCLUDED"
                        /\ requests[r].subchains_status[sc] # "CONCLUDED"}

SuccessorsOf(r, sc) == successors(scm.alternative_graph, requests[r].current_nodes[sc])

\* what one init_transmission for the node of every subchain whose last
\* thread the step reaps has to leave behind
DueTransmissions(r) ==
    UNION {{scm.node_subchain_id_map[SuccessorsOf(r, sc)[i]] :
               i \in 1..Len(SuccessorsOf(r, sc))} :
             sc \in {s \in Subchains : LastThreadReaped(r, s)}}

DueConclusions(r) ==
    {sc \in Subchains : LastThreadReaped(r, sc) /\ Len(SuccessorsOf(r, sc)) # 1}

\* C36: the active-thread counter of every request and subchain is never
\* negative and counts the live threads of the subchain, and a step invokes
\* init_transmission for a node exactly when it reaps the last live thread
\* spawned for the node: the transmissions and conclusions of a step are
\* those of the subchains whose counter the step brings to zero
C36_InitTransmissionOncePerNode ==
    /\ [](\A r \in DOMAIN requests : \A sc \in Subchains :
            /\ requests[r].current_active_threads[sc] >= 0
            /\ requests[r].current_active_threads[sc]
                   = Cardinality(LiveThreadsOf(r, sc)))
    /\ [][\A r \in DOMAIN requests :
            /\ NewTransmissions(r) = DueTransmissions(r)
            /\ NewlyConcluded(r) = DueConclusions(r)]_vars

\* the first of the two threads of a node has been reaped, the second is
\* still running, and the node has not been given its transmission
C36_Witness ==
    /\ err = NoError
    /\ \E t \in active_threads :
          /\ threads_count(t.node[2]) = 2
          /\ LiveThreadsOf(t.req, t.sc) = {t}
          /\ requests[t.req].current_active_threads[t.sc] = 1
          /\ \A x \in active_transmissions : transmission_key(x) # <<t.req, t.sc>>

\* the step releases transmission x from the network
Finished(x) ==
    /\ x \in active_transmissions
    /\ \A y \in active_transmissions' : transmission_key(y) # transmission_key(x)

\* the latency that is left of transmission x after the step has transmitted
\* it (the payload of every flow has 0 bytes)
ResidualLatency(x) == transmit(x, duration_of_next_event).trans.total_latency

\* C37: a RUN-THREADS step finishes a transmission if and only if its
\* residual latency (and its remaining payload, here 0 bytes) has reached 0
\* or less, for every pair of source and destination replicas
C37_FinishedIffNothingRemains ==
    [][(next_event = "RUN THREADS" /\ err' = NoError) =>
          \A x \in active_transmissions : Finished(x) <=> ResidualLatency(x) <= 0]_vars

\* the active transmissions whose predicted completion clock is k
CompletingAt(k) == {x \in active_transmissions : x.transmission_exact_time = k}

\* C39: between the driver's steps the completion map is an exact refcount
\* of the active transmissions: the completion clock of every active
\* transmission is a key, the counter under a key is the number of active
\* transmissions with that completion clock and is positive, and no clock
\* that is stored, moved or popped is the infinity of the sentinel entry
C39_CompletionMapIsRefcount ==
    /\ \A x \in active_transmissions :
          x.transmission_exact_time \in DOMAIN next_trans_completion_times
    /\ \A k \in DOMAIN next_trans_completion_times :
          /\ next_trans_completion_times[k] = Cardinality(CompletingAt(k))
          /\ next_trans_completion_times[k] > 0
          /\ k < Inf
    /\ time < Inf
    /\ \A r \in DOMAIN requests : \A sc \in Subchains :
          requests[r].trans_exact_times[sc] < Inf

\* two active transmissions complete at the same clock
C39_Witness ==
    /\ err = NoError
    /\ \E k \in DOMAIN next_trans_completion_times :
          /\ next_trans_completion_times[k] = 2
          /\ Cardinality(CompletingAt(k)) = 2

\* the reserved CPU shares of the cores, the reserved RAM and the reserved
\* storage of a host
ReservedOn(host) ==
    <<[i \in DOMAIN host.cpu |-> host.cpu[i].reserved], host.ram.reserved,
      host.blkio.reserved>>

PlacedOn(h, r) == place_replica(hosts_dict[h], microservice_of[r], r)

PlacedAndEvicted(h, r) == evict_replica(PlacedOn(h, r).host, microservice_of[r], r)

\* C40: placing a replica on a host and then evicting it restores the
\* reserved CPU shares, RAM and storage of the host to what they were before
\* the placement, for every QoS class of the replica's microservice
C40_PlaceThenEvictRestores ==
    Recoverable =>
        \A h \in Hosts : \A r \in PlacedReplicas :
            (r \notin hosts_dict[h].replicas /\ PlacedOn(h, r).raised = NoError) =>
                /\ PlacedAndEvicted(h, r).raised = NoError
                /\ ReservedOn(PlacedAndEvicted(h, r).host) = ReservedOn(hosts_dict[h])

\* ---------------------------------------------------------------------------
\* The bandwidth of the transmissions on the links of the topology
\* (equipments/topology.py, traffic/transmission.py).  Three hosts hang on one
\* router, every link is directed, and a transmission between two hosts runs
\* over the link from its source host to the router and the link from the
\* router to its destination host.  Bandwidths are whole units; the divisions
\* of the code are exact for the values used here.
\* ---------------------------------------------------------------------------

\* Transmission.__init__ (transmission.py:63): requested_bw = None, which is
\* also the current_bw of a new transmission that has links.
NoBandwidth == -1

\* The concurrent transmissions the scenario admits.
MaxTransmissions == 3

Router == "r"
LinkedHosts == {"h1", "h2", "h3"}
Edges == {<<h, Router>> : h \in LinkedHosts} \cup {<<Router, h>> : h \in LinkedHosts}

\* The bandwidth of the NIC at each end of a link (nic.py: NIC.bandwidth).
nic_bandwidth == [h1 |-> 24, h2 |-> 24, h3 |-> 24, r |-> 24]

\* The replicas, their hosts and the bandwidth of their processes (process.py).
replica_host == [A |-> "h1", B |-> "h1", C |-> "h2", D |-> "h3"]
egress_bw == [A |-> 12, B |-> 48, C |-> 48, D |-> 48]
ingress_bw == [A |-> 48, B |-> 48, C |-> 48, D |-> 48]

\* The edges of the service chains: who transmits to whom.
TransmissionPairs ==
    {<<"A", "B">>, <<"A", "C">>, <<"A", "D">>, <<"B", "C">>, <<"B", "D">>, <<"C", "D">>}

\* Transmission.get_bandwidth_on_link: the smaller of the NIC bandwidths of the
\* two ends of the link.
get_bandwidth_on_link(source, destination) ==
    Min({nic_bandwidth[source], nic_bandwidth[destination]})

\* Transmission.__init__: the links of the shortest path from the host of the
\* source replica to the host of the destination replica; none on one host.
links_of(src_replica, dst_replica) ==
    IF replica_host[src_replica] = replica_host[dst_replica]
    THEN {}
    ELSE {<<replica_host[src_replica], Router>>, <<Router, replica_host[dst_replica]>>}

active_outgoing_transmissions(net, replica) ==
    {i \in DOMAIN net.transmissions : net.transmissions[i].src_replica = replica}

active_incoming_transmissions(net, replica) ==
    {i \in DOMAIN net.transmissions : net.transmissions[i].dst_replica = replica}

\* NIC.reserve_transmission_for_request and Transmission.__init__: the new
\* transmission joins the sets of its two processes, the set of each of its
\* links, which become active edges, and the active transmissions.
reserve_transmission_for_request(net, id, src_replica, dst_replica) ==
    [net EXCEPT
        !.transmissions = (id :> [src_replica |-> src_replica,
                                  dst_replica |-> dst_replica,
                                  current_bw |-> IF links_of(src_replica, dst_replica) # {}
                                                 THEN NoBandwidth ELSE Inf]) @@ @,
        !.edges = [e \in Edges |->
                      IF e \in links_of(src_replica, dst_replica)
                      THEN [@[e] EXCEPT !.transmissions = @ \cup {id}]
                      ELSE @[e]],
        !.active_edges = @ \cup links_of(src_replica, dst_replica)]

\* NIC.release_transmission_for_request and Transmission.finish: the
\* transmission leaves every set; a link it leaves empty is no active edge any
\* more and becomes a zombie edge.
release_transmission_for_request(net, id) ==
    [net EXCEPT
        !.transmissions = [i \in DOMAIN @ \ {id} |-> @[i]],
        !.edges = [e \in Edges |-> [@[e] EXCEPT !.transmissions = @ \ {id}]],
        !.active_edges = @ \ {e \in Edges : net.edges[e].transmissions = {id}},
        !.zombie_edges = @ \cup {e \in Edges : net.edges[e].transmissions = {id}}]

\* Transmission.calculate_requested_bw: nothing on one host, else the least of
\* the portions of its links, the two NIC bandwidths and the shares of the
\* egress and ingress bandwidth of its processes (egress_err = ingress_err = 0).
calculate_requested_bw(net, id) ==
    IF replica_host[net.transmissions[id].src_replica]
           = replica_host[net.transmissions[id].dst_replica]
    THEN 0
    ELSE Min({net.edges[e].transmissions_portion_of_bandwidth :
                  e \in links_of(net.transmissions[id].src_replica,
                                 net.transmissions[id].dst_replica)}
             \cup {nic_bandwidth[replica_host[net.transmissions[id].src_replica]],
                   nic_bandwidth[replica_host[net.transmissions[id].dst_replica]],
                   egress_bw[net.transmissions[id].src_replica]
                       \div Cardinality(active_outgoing_transmissions(
                                            net, net.transmissions[id].src_replica)),
                   ingress_bw[net.transmissions[id].dst_replica]
                       \div Cardinality(active_incoming_transmissions(
                                            net, net.transmissions[id].dst_replica))})

RECURSIVE unused_portions(_, _, _)
unused_portions(net, S, portion_of_bandwidth) ==
    IF S = {} THEN 0
    ELSE LET transmission == CHOOSE i \in S : TRUE
         IN  (IF calculate_requested_bw(net, transmission) > portion_of_bandwidth
              THEN 0
              ELSE portion_of_bandwidth - calculate_requested_bw(net, transmission))
             + unused_portions(net, S \ {transmission}, portion_of_bandwidth)

\* Topology.recalculate_transmissions_portion_of_bandwidth_on_link, the value
\* it arrives at: the bandwidth of an empty link; else an equal split, to which
\* the transmissions that ask for more than the split add an equal part of
\* what the others leave unused.
portion_of_bandwidth_on_link(net, link) ==
    LET link_bw == get_bandwidth_on_link(link[1], link[2])
        transmissions == net.edges[link].transmissions
        portion_of_bandwidth(n) == link_bw \div n
        best_effort_transmissions_count(n) ==
            Cardinality({i \in transmissions :
                            calculate_requested_bw(net, i) > portion_of_bandwidth(n)})
    IN  IF transmissions = {} THEN link_bw
        ELSE IF best_effort_transmissions_count(Cardinality(transmissions)) # 0
        THEN portion_of_bandwidth(Cardinality(transmissions))
                 + unused_portions(net, transmissions,
                                   portion_of_bandwidth(Cardinality(transmissions)))
                       \div best_effort_transmissions_count(Cardinality(transmissions))
        ELSE portion_of_bandwidth(Cardinality(transmissions))

\* The body of the loop over the active edges (topology.py:98-107): the
\* portion of the edge is recalculated and stored, which counts as a
\* modification when the value differs from the stored one, and a transmission
\* on the edge gets a new current_bw when the portion changed or when it has
\* none yet.
recalculate_transmissions_bw_on_link(net, edge) ==
    LET is_edge_modified ==
            portion_of_bandwidth_on_link(net, edge)
                # net.edges[edge].transmissions_portion_of_bandwidth
        recalculate_transmissions_portion_of_bandwidth_on_link ==
            [net EXCEPT !.edges[edge].transmissions_portion_of_bandwidth =
                            portion_of_bandwidth_on_link(net, edge)]
        set_current_bw(after) ==
            [after EXCEPT !.transmissions =
                [i \in DOMAIN @ |->
                    IF /\ i \in net.edges[edge].transmissions
                       /\ \/ is_edge_modified
                          \/ @[i].current_bw = NoBandwidth
                    THEN [@[i] EXCEPT !.current_bw = calculate_requested_bw(after, i)]
                    ELSE @[i]]]
    IN  set_current_bw(recalculate_transmissions_portion_of_bandwidth_on_link)

RECURSIVE recalculate_active_edges_from(_, _, _)
recalculate_active_edges_from(net, order, i) ==
    IF i > Len(order) THEN net
    ELSE recalculate_active_edges_from(
             recalculate_transmissions_bw_on_link(net, order[i]), order, i + 1)

\* Topology.recalculate_transmissions_bw_on_all_links: the active edges in the
\* order the set yields them, then the zombie edges, whose set is emptied.
Topology_recalculate_transmissions_bw_on_all_links(net, order) ==
    LET zombies(after) ==
            [after EXCEPT
                !.edges = [e \in Edges |->
                              IF e \in after.zombie_edges
                              THEN [@[e] EXCEPT !.transmissions_portion_of_bandwidth =
                                        portion_of_bandwidth_on_link(after, e)]
                              ELSE @[e]],
                !.zombie_edges = {}]
    IN  zombies(recalculate_active_edges_from(net, order, 1))

\* The smallest identifier no active transmission holds.
last_transmission_id(net) == Min((1..MaxTransmissions + 1) \ DOMAIN net.transmissions)

\* CPU.kill_zombie_threads (cpu.py:570-583): the requests whose last thread
\* was reaped start their transmissions, one or two here, and the bandwidths
\* are recalculated once after them.
Request_init_transmission ==
    /\ Cardinality(DOMAIN network.transmissions) < MaxTransmissions
    /\ \E first \in TransmissionPairs, more \in BOOLEAN, second \in TransmissionPairs :
          LET one == reserve_transmission_for_request(
                         network, last_transmission_id(network), first[1], first[2])
              started ==
                  IF more /\ Cardinality(DOMAIN one.transmissions) < MaxTransmissions
                  THEN reserve_transmission_for_request(
                           one, last_transmission_id(one), second[1], second[2])
                  ELSE one
          IN  \E order \in Orders(started.active_edges) :
                 network' = Topology_recalculate_transmissions_bw_on_all_links(started, order)
    /\ UNCHANGED <<scm, tp, total_requests_count, driver_vars, cluster_vars, host_of,
                   placement_vars, sched>>

RECURSIVE release_each(_, _)
release_each(net, S) ==
    IF S = {} THEN net
    ELSE LET id == CHOOSE i \in S : TRUE
         IN  release_each(release_transmission_for_request(net, id), S \ {id})

\* Cluster.transmit_requests_in_network (cluster.py:403-421): the
\* transmissions that are through are released, and the bandwidths are
\* recalculated once when there was one.
Cluster_transmit_requests_in_network ==
    /\ \E finished \in SUBSET DOMAIN network.transmissions :
          /\ finished # {}
          /\ \E order \in Orders(release_each(network, finished).active_edges) :
                 network' = Topology_recalculate_transmissions_bw_on_all_links(
                                release_each(network, finished), order)
    /\ UNCHANGED <<scm, tp, total_requests_count, driver_vars, cluster_vars, host_of,
                   placement_vars, sched>>

\* LoadGenerator._exec_time_estimation (load_generator.py:286): the bandwidths
\* are recalculated before every step that runs the threads.
LoadGenerator_exec_time_estimation ==
    /\ \E order \in Orders(network.active_edges) :
          network' = Topology_recalculate_transmissions_bw_on_all_links(network, order)
    /\ UNCHANGED <<scm, tp, total_requests_count, driver_vars, cluster_vars, host_of,
                   placement_vars, sched>>

\* TopologyPrototype.__init__, add_edges_from and reinitiate_topology: no
\* transmission, no active and no zombie edge, and every link offers its whole
\* bandwidth.
BandwidthInit ==
    /\ scm = ServiceChainManager(CHOOSE c \in ServiceChains : Len(c.nodes) = 1)
    /\ tp = [duration |-> 0, arrival_interval_ns |-> 2, start_at |-> 1, parallel_user |-> 1]
    /\ total_requests_count = 0
    /\ time = 0
    /\ previous_event = "None"
    /\ next_event = "REQUEST"
    /\ prediction = "None"
    /\ duration_of_next_event = 0
    /\ next_batch_arrival_time = 0
    /\ merged_arrival_table = {}
    /\ completed_requests = 0
    /\ requests = <<>>
    /\ requests_ready_for_thread_generation = <<>>
    /\ active_threads = {}
    /\ active_transmissions = {}
    /\ next_trans_completion_times = <<>>
    /\ load_balancing_needed = [h \in Hosts |-> FALSE]
    /\ err = NoError
    /\ hosts_dict = [h \in Hosts |-> Host(PlacementHostPrototypes[h])]
    /\ host_of = [r \in PlacedReplicas |-> NoHost]
    /\ microservice_of = [r \in PlacedReplicas |-> best_effort]
    /\ raised = NoError
    /\ direct_calls = 0
    /\ affinity_rules = [r \in PlacedReplicas |-> no_rules]
    /\ last_call = None
    /\ sched = None
    /\ network = [transmissions |-> <<>>,
                  edges |-> [e \in Edges |->
                                [transmissions |-> {},
                                 transmissions_portion_of_bandwidth |->
                                     get_bandwidth_on_link(e[1], e[2])]],
                  active_edges |-> {},
                  zombie_edges |-> {}]

BandwidthNext ==
    \/ Request_init_transmission
    \/ Cluster_transmit_requests_in_network
    \/ LoadGenerator_exec_time_estimation

BandwidthSpec == BandwidthInit /\ [][BandwidthNext]_vars

\* ---------------------------------------------------------------------------
\* C38: whenever the transmissions are advanced in a step that runs the
\* threads, that is with the bandwidths LoadGenerator._exec_time_estimation
\* has just recalculated, the current_bw of the transmissions on a link add
\* up to no more than the bandwidth of the link, for every link, in whatever
\* order the active edges were recalculated and however the transmissions on
\* the links changed before.
\* ---------------------------------------------------------------------------
RECURSIVE SumOfCurrentBw(_, _)
SumOfCurrentBw(net, S) ==
    IF S = {} THEN 0
    ELSE LET i == CHOOSE x \in S : TRUE
         IN  net.transmissions[i].current_bw + SumOfCurrentBw(net, S \ {i})

LinkLoadsWithin(net) ==
    \A e \in Edges :
        SumOfCurrentBw(net, net.edges[e].transmissions) <= get_bandwidth_on_link(e[1], e[2])

C38_LinkBandwidthRespected ==
    \A order \in Orders(network.active_edges) :
        LinkLoadsWithin(Topology_recalculate_transmissions_bw_on_all_links(network, order))

====
